---- MODULE Spec2Model ----
(***************************************************************************)
(* A model of the transformer orchestration core of move2kube:             *)
(*   - the artifact merge functions of the transformer package             *)
(*     (mergeArtifact, mergeConfigs, mergePathSliceMaps, mergeArtifacts,   *)
(*     updatedArtifacts), with Go maps modelled as references into a heap  *)
(*     so that in-place mutation and aliasing are visible;                 *)
(*   - the transformer selection of getFilteredTransformers;               *)
(*   - the filesystem and archive builtins of the Starlark host;           *)
(*   - the Starlark host itself (Init, Transform, DirectoryDetect, query   *)
(*     and the validator query builds), postProcessArtifacts,              *)
(*     getIgnorePaths and getPlanArtifactsFromArtifacts;                   *)
(*   - CreatePlan of the planner;                                          *)
(*   - ReadFilesAsTar, writeToTar and createTarArchive, with the pipe      *)
(*     between the writer goroutine and the reader.                        *)
(***************************************************************************)
EXTENDS Integers, Sequences, FiniteSets, TLC

\* ------------------------------------------------------------------------
\* Bounds of the model
\* ------------------------------------------------------------------------

\* largest number of artifacts (seen and new together) handed to updatedArtifacts
MaxLen == 3

\* largest number of descriptor files handed to getFilteredTransformers
MaxTransformers == 3

\* ------------------------------------------------------------------------
\* Artifact data model
\* ------------------------------------------------------------------------

ArtifactTypes == {"X", "Y"}
ArtifactNames == {"n1", "n2"}
PathKinds == {"k1", "k2"}
ConfigKinds == {"T", "G"}

\* artifacts.ConfigTypes: the config kinds that have a registered typed schema
ConfigTypes == {"T"}

\* the orders in which a range loop can visit the keys of a configs map
Orders == {<<"T", "G">>, <<"G", "T">>}

\* a nil map
NilRef == 0

\* map1[k] of a missing key of a path map: the nil slice
NoPaths == [present |-> FALSE, list |-> <<>>]
PathsOf(l) == [present |-> TRUE, list |-> l]
EmptyPathMap == [k \in PathKinds |-> NoPaths]

\* configs1[k] of a missing key of a configs map: the nil interface
NoConfig == [kind |-> "absent", id |-> 0, list |-> <<>>, set |-> {}]
\* a value of a registered kind that decodes into its schema
Typed(i, s) == [kind |-> "typed", id |-> i, list |-> <<>>, set |-> s]
\* a value that does not decode into the schema of a registered kind
Undecodable == [kind |-> "bad", id |-> 0, list |-> <<>>, set |-> {}]
Scalar(v) == [kind |-> "scalar", id |-> v, list |-> <<>>, set |-> {}]
List(l) == [kind |-> "list", id |-> 0, list |-> l, set |-> {}]
EmptyConfigMap == [k \in ConfigKinds |-> NoConfig]

\* the zero value of transformertypes.Artifact
ZeroArtifact == [name |-> "", type |-> "", paths |-> NilRef, configs |-> NilRef]

\* ------------------------------------------------------------------------
\* common/utils.go: slices
\* ------------------------------------------------------------------------

IsPresent(list, value) == \E n \in 1..Len(list) : list[n] = value

RECURSIVE AppendIfNotPresent(_, _)
AppendIfNotPresent(list, values) ==
    IF values = <<>> THEN list
    ELSE AppendIfNotPresent(IF IsPresent(list, Head(values)) THEN list
                            ELSE Append(list, Head(values)),
                            Tail(values))

\* a MergeSlices that appends without looking
MergeSlicesAppendAll(slice1, slice2) == slice1 \o slice2

MergeSlices(slice1, slice2) == AppendIfNotPresent(slice1, slice2)

\* ------------------------------------------------------------------------
\* typed and generic config values
\* ------------------------------------------------------------------------

\* common.GetObjFromInterface into the schema of a registered kind
Decodes(v) == v.kind = "typed"

\* Config.Merge of a registered kind: refuses values of a different identity
ConfigMergeAccepts(c1, c2) == c1.id = c2.id

\* Config.Merge of a registered kind: the receiver after an accepted merge
ConfigMerge(c1, c2) == Typed(c1.id, c1.set \cup c2.set)

\* deepcopy.Merge: sequences are concatenated without repeating an element,
\* for everything else the right operand wins
DeepCopyMerge(x, y) ==
    IF x.kind = "list" /\ y.kind = "list"
    THEN List(AppendIfNotPresent(x.list, y.list))
    ELSE y

\* ------------------------------------------------------------------------
\* transformer package: merging two artifacts
\* ------------------------------------------------------------------------

\* a mergePathSliceMaps that returns map1 whenever one of the maps is nil
mergePathSliceMapsKeepFirst(ph, map1, map2) ==
    IF map1 = NilRef \/ map2 = NilRef THEN [ref |-> map1, pathMaps |-> ph]
    ELSE [ref |-> map1,
          pathMaps |-> [ph EXCEPT ![map1] =
              [k \in PathKinds |->
                  IF ph[map2][k].present
                  THEN PathsOf(MergeSlices(ph[map1][k].list, ph[map2][k].list))
                  ELSE ph[map1][k]]]]

\* mergePathSliceMaps on the heap of path maps ph: the returned map and the heap
mergePathSliceMaps(ph, map1, map2) ==
    IF map1 = NilRef THEN [ref |-> map2, pathMaps |-> ph]
    ELSE IF map2 = NilRef THEN [ref |-> map1, pathMaps |-> ph]
    ELSE [ref |-> map1,
          pathMaps |-> [ph EXCEPT ![map1] =
              [k \in PathKinds |->
                  IF ph[map2][k].present
                  THEN PathsOf(MergeSlices(ph[map1][k].list, ph[map2][k].list))
                  ELSE ph[map1][k]]]]

\* the range loop of mergeConfigs over the keys of configs2 still to visit
RECURSIVE mergeConfigsLoop(_, _, _, _)
mergeConfigsLoop(ch, configs1, configs2, keys) ==
    IF keys = <<>>
    THEN [ref |-> configs1, merged |-> TRUE, refusedKey |-> "", configMaps |-> ch]
    ELSE LET cn2 == Head(keys)
             v1 == ch[configs1][cn2]
             v2 == ch[configs2][cn2]
         IN  IF v2.kind = "absent"
             THEN mergeConfigsLoop(ch, configs1, configs2, Tail(keys))
             ELSE IF v1.kind = "absent"
             THEN mergeConfigsLoop([ch EXCEPT ![configs1][cn2] = v2],
                                   configs1, configs2, Tail(keys))
             ELSE IF cn2 \in ConfigTypes
             THEN IF ~Decodes(v1) \/ ~Decodes(v2)
                  THEN [ref |-> configs1, merged |-> TRUE, refusedKey |-> "",
                        configMaps |-> ch]
                  ELSE IF ~ConfigMergeAccepts(v1, v2)
                  THEN [ref |-> configs1, merged |-> FALSE, refusedKey |-> cn2,
                        configMaps |-> ch]
                  ELSE mergeConfigsLoop([ch EXCEPT ![configs1][cn2] = ConfigMerge(v1, v2)],
                                        configs1, configs2, Tail(keys))
             ELSE mergeConfigsLoop([ch EXCEPT ![configs1][cn2] = DeepCopyMerge(v1, v2)],
                                   configs1, configs2, Tail(keys))

\* a mergeConfigs that returns configs1 whenever one of the maps is nil
mergeConfigsKeepFirst(ch, configs1, configs2, ord) ==
    IF configs1 = NilRef \/ configs2 = NilRef
    THEN [ref |-> configs1, merged |-> TRUE, refusedKey |-> "", configMaps |-> ch]
    ELSE mergeConfigsLoop(ch, configs1, configs2, ord)

\* mergeConfigs on the heap of config maps ch, the keys of configs2 visited in
\* the order ord
mergeConfigs(ch, configs1, configs2, ord) ==
    IF configs1 = NilRef
    THEN [ref |-> configs2, merged |-> TRUE, refusedKey |-> "", configMaps |-> ch]
    ELSE IF configs2 = NilRef
    THEN [ref |-> configs1, merged |-> TRUE, refusedKey |-> "", configMaps |-> ch]
    ELSE mergeConfigsLoop(ch, configs1, configs2, ord)

\* the outcome of a mergeArtifact call that did not merge
NotMerged(ph, ch, key) ==
    [c |-> ZeroArtifact, merged |-> FALSE, refusedKey |-> key,
     pathMaps |-> ph, configMaps |-> ch]

\* the artifact mergeArtifact builds once the configs are merged
MergedOf(ph, a, b, mc) ==
    LET mp == mergePathSliceMaps(ph, a.paths, b.paths)
    IN  [c |-> [name |-> a.name, type |-> a.type,
                paths |-> mp.ref, configs |-> mc.ref],
         merged |-> TRUE, refusedKey |-> mc.refusedKey,
         pathMaps |-> mp.pathMaps, configMaps |-> mc.configMaps]

\* a mergeArtifact that compares the types only
mergeArtifactTypeOnly(ph, ch, a, b, ord) ==
    IF a.type = b.type
    THEN LET mc == mergeConfigs(ch, a.configs, b.configs, ord)
         IN  IF ~mc.merged
             THEN NotMerged(ph, mc.configMaps, mc.refusedKey)
             ELSE MergedOf(ph, a, b, mc)
    ELSE NotMerged(ph, ch, "")

\* a mergeArtifact that compares the name of a with the type of b
mergeArtifactNameWithType(ph, ch, a, b, ord) ==
    IF a.type = b.type /\ a.name = b.type
    THEN LET mc == mergeConfigs(ch, a.configs, b.configs, ord)
         IN  IF ~mc.merged
             THEN NotMerged(ph, mc.configMaps, mc.refusedKey)
             ELSE MergedOf(ph, a, b, mc)
    ELSE NotMerged(ph, ch, "")

\* a mergeArtifact that does not look at the flag mergeConfigs returns
mergeArtifactIgnoringRefusal(ph, ch, a, b, ord) ==
    IF a.type = b.type /\ a.name = b.name
    THEN MergedOf(ph, a, b, mergeConfigs(ch, a.configs, b.configs, ord))
    ELSE NotMerged(ph, ch, "")

\* mergeArtifact(a, b) on the heaps ph and ch
mergeArtifact(ph, ch, a, b, ord) ==
    IF a.type = b.type /\ a.name = b.name
    THEN LET mc == mergeConfigs(ch, a.configs, b.configs, ord)
         IN  IF ~mc.merged
             THEN NotMerged(ph, mc.configMaps, mc.refusedKey)
             ELSE MergedOf(ph, a, b, mc)
    ELSE NotMerged(ph, ch, "")

\* ------------------------------------------------------------------------
\* State
\* ------------------------------------------------------------------------

VARIABLES
    pathMaps,             \* the heap of Paths maps: reference -> map contents
    configMaps,           \* the heap of Configs maps: reference -> map contents
    pathMaps0,            \* the heap of Paths maps when updatedArtifacts was entered
    configMaps0,          \* the heap of Configs maps when updatedArtifacts was entered
    argA,                 \* mergeArtifact: the argument a
    argB,                 \* mergeArtifact: the argument b
    resAB,                \* the outcome of mergeArtifact(a, b)
    resBA,                \* the outcome of mergeArtifact(b, a) on the same heaps
    alreadySeenArtifacts, \* updatedArtifacts: the seen artifacts
    newArtifacts,         \* updatedArtifacts: the newArtifacts slice
    newArtifacts0,        \* the newArtifacts slice when updatedArtifacts was entered
    out,                  \* mergeArtifacts: its newArtifacts slice, the result
    idxI,                 \* position of the outer loop
    idxJ,                 \* position of the inner loop
    mergePc,              \* "pair", "seenLoop", "mergeLoop", "done" or "idle"
    lastMerge,            \* what the latest mergeArtifact call of a loop returned
    refused               \* mergeArtifacts: the calls <<i, j>> whose merge was refused

mergeVars == <<pathMaps, configMaps, pathMaps0, configMaps0, argA, argB, resAB, resBA,
               alreadySeenArtifacts, newArtifacts, newArtifacts0, out, idxI, idxJ,
               mergePc, lastMerge, refused>>

VARIABLES
    transformerPaths,           \* the descriptor files, in the order the range loop visits them
    selector,                   \* the user's transformer selector
    loadIdx,                    \* the next entry of transformerPaths to visit
    filteredTransformerConfigs, \* name -> descriptor that passed the filters
    overrideSelectors,          \* the override selectors collected so far
    conflicts,                  \* the name conflicts reported so far
    transformerConfigs,         \* the result of getFilteredTransformers
    filterPc                    \* "load", "select", "done" or "idle"

filterVars == <<transformerPaths, selector, loadIdx, filteredTransformerConfigs,
                overrideSelectors, conflicts, transformerConfigs, filterPc>>

VARIABLES
    fsCall,    \* the builtin a script called last, with its arguments
    fsResult,  \* what that call returned to the script
    fsOps,     \* the filesystem reads and writes that call performed, in order
    disk       \* the files written so far

fsVars == <<fsCall, fsResult, fsOps, disk>>

VARIABLES
    StarGlobals,  \* Starlark.StarGlobals: name -> value
    predeclared,  \* the predeclared names the script was executed with
    script,       \* the script of the transformer: its top-level definitions
    projectName,  \* env.ProjectName
    detectFn,     \* Starlark.detectFn
    transformFn,  \* Starlark.transformFn
    starPc,       \* "new", "loading", "ready", "failed", "exited" or "idle"
    starCall,     \* the latest call into the host, with its arguments
    starResult,   \* what that call returned
    submitted     \* the ids of the problems handed to the QA engine

starVars == <<StarGlobals, predeclared, script, projectName, detectFn, transformFn,
              starPc, starCall, starResult, submitted>>

VARIABLES
    utilIn,   \* the arguments of the function under study
    utilOut,  \* what it has built so far, and at the end its result
    utilPc    \* "call", "loop", "done" or "idle"

utilVars == <<utilIn, utilOut, utilPc>>

vars == <<mergeVars, filterVars, fsVars, starVars, utilVars>>

\* what the actions of one component leave alone
notMergeVars == <<filterVars, fsVars, starVars, utilVars>>
notFilterVars == <<mergeVars, fsVars, starVars, utilVars>>
notFsVars == <<mergeVars, filterVars, starVars, utilVars>>
notStarVars == <<mergeVars, filterVars, fsVars, utilVars>>
notUtilVars == <<mergeVars, filterVars, fsVars, starVars>>

\* ------------------------------------------------------------------------
\* Inputs
\* ------------------------------------------------------------------------

PathMapOf(l1, l2) == [k \in PathKinds |->
    IF k = "k1" THEN (IF l1 = <<>> THEN NoPaths ELSE PathsOf(l1))
    ELSE (IF l2 = <<>> THEN NoPaths ELSE PathsOf(l2))]

ConfigMapOf(t, g) == [k \in ConfigKinds |-> IF k = "T" THEN t ELSE g]

\* an artifact as a value: the contents of its maps instead of references
ArtifactValue(n, t, pNil, pMap, cNil, cMap) ==
    [name |-> n, type |-> t, pathsNil |-> pNil, pathsMap |-> pMap,
     configsNil |-> cNil, configsMap |-> cMap]

\* the Paths of the artifacts handed to mergeArtifact
PairPaths ==
    {[nil |-> TRUE, m |-> EmptyPathMap],
     [nil |-> FALSE, m |-> EmptyPathMap],
     [nil |-> FALSE, m |-> PathMapOf(<<"p">>, <<>>)],
     [nil |-> FALSE, m |-> PathMapOf(<<"p", "p">>, <<>>)],
     [nil |-> FALSE, m |-> PathMapOf(<<"q", "p">>, <<>>)],
     [nil |-> FALSE, m |-> PathMapOf(<<"p">>, <<"q">>)]}

\* the Configs of the artifacts handed to mergeArtifact
PairConfigs ==
    {[nil |-> TRUE, m |-> EmptyConfigMap],
     [nil |-> FALSE, m |-> ConfigMapOf(Typed(1, {1}), NoConfig)],
     [nil |-> FALSE, m |-> ConfigMapOf(Typed(1, {2}), NoConfig)],
     [nil |-> FALSE, m |-> ConfigMapOf(Typed(2, {1}), NoConfig)],
     [nil |-> FALSE, m |-> ConfigMapOf(Undecodable, NoConfig)],
     [nil |-> FALSE, m |-> ConfigMapOf(NoConfig, Scalar(1))],
     [nil |-> FALSE, m |-> ConfigMapOf(NoConfig, Scalar(2))],
     [nil |-> FALSE, m |-> ConfigMapOf(NoConfig, List(<<1>>))],
     [nil |-> FALSE, m |-> ConfigMapOf(Typed(1, {1}), Scalar(1))],
     [nil |-> FALSE, m |-> ConfigMapOf(Typed(1, {2}), List(<<2>>))],
     [nil |-> FALSE, m |-> ConfigMapOf(Typed(2, {1}), Scalar(2))],
     [nil |-> FALSE, m |-> ConfigMapOf(Undecodable, List(<<2, 1>>))]}

PairIdentities == {<<"X", "n1">>, <<"X", "n2">>, <<"Y", "n1">>}

PairValues(ids) ==
    {ArtifactValue(id[2], id[1], p.nil, p.m, c.nil, c.m) :
        id \in ids, p \in PairPaths, c \in PairConfigs}

\* the artifacts handed to mergeArtifacts and updatedArtifacts
ListValues ==
    {ArtifactValue("n1", "X", TRUE, EmptyPathMap, TRUE, EmptyConfigMap),
     ArtifactValue("n1", "X", FALSE, PathMapOf(<<"p">>, <<>>),
                   FALSE, ConfigMapOf(Typed(1, {1}), Scalar(1))),
     ArtifactValue("n1", "X", FALSE, PathMapOf(<<"q">>, <<>>),
                   FALSE, ConfigMapOf(Typed(2, {1}), Scalar(2))),
     ArtifactValue("n1", "X", FALSE, PathMapOf(<<"p">>, <<>>),
                   FALSE, ConfigMapOf(Undecodable, NoConfig)),
     ArtifactValue("n1", "X", FALSE, PathMapOf(<<>>, <<"q">>),
                   FALSE, ConfigMapOf(NoConfig, List(<<1>>))),
     ArtifactValue("n1", "Y", FALSE, PathMapOf(<<"p">>, <<>>),
                   FALSE, ConfigMapOf(Typed(1, {1}), NoConfig)),
     ArtifactValue("n2", "X", FALSE, PathMapOf(<<"q">>, <<>>),
                   TRUE, EmptyConfigMap)}

\* the artifact struct of the value v whose maps live at reference r
Allocated(v, r) ==
    [name |-> v.name, type |-> v.type,
     paths |-> IF v.pathsNil THEN NilRef ELSE r,
     configs |-> IF v.configsNil THEN NilRef ELSE r]

\* the contents of an artifact on the heaps ph and ch
ArtifactView(ph, ch, art) ==
    [name |-> art.name, type |-> art.type,
     pathsNil |-> art.paths = NilRef,
     pathsMap |-> IF art.paths = NilRef THEN EmptyPathMap ELSE ph[art.paths],
     configsNil |-> art.configs = NilRef,
     configsMap |-> IF art.configs = NilRef THEN EmptyConfigMap ELSE ch[art.configs]]

NoOutcome == [called |-> FALSE, c |-> ZeroArtifact, merged |-> FALSE,
              refusedKey |-> "", view |-> ArtifactView(<<>>, <<>>, ZeroArtifact),
              viewA |-> ArtifactView(<<>>, <<>>, ZeroArtifact),
              viewB |-> ArtifactView(<<>>, <<>>, ZeroArtifact)]

\* what a caller of mergeArtifact(x, y) observes after the call: the returned
\* artifact and flag, and the contents of the result and of both arguments
Outcome(r, x, y) ==
    [called |-> TRUE, c |-> r.c, merged |-> r.merged,
     refusedKey |-> r.refusedKey,
     view |-> ArtifactView(r.pathMaps, r.configMaps, r.c),
     viewA |-> ArtifactView(r.pathMaps, r.configMaps, x),
     viewB |-> ArtifactView(r.pathMaps, r.configMaps, y)]

NoCall == [called |-> FALSE, merged |-> FALSE, refusedKey |-> ""]

\* the flag a loop reads from the mergeArtifact call it just made
Returned(r) == [called |-> TRUE, merged |-> r.merged, refusedKey |-> r.refusedKey]

NoFsCall == [fn |-> "", paths |-> <<>>, other |-> "", argsOk |-> TRUE]
NoFsResult == [err |-> FALSE, invalid |-> FALSE, value |-> "None"]

FsIdle == fsCall = NoFsCall /\ fsResult = NoFsResult /\ fsOps = <<>> /\ disk = {}

\* values of the script language, as far as the host tells them apart
AbsentValue == [kind |-> "absent", params |-> 0, str |-> ""]
Function(n) == [kind |-> "function", params |-> n, str |-> ""]
StringValue(str) == [kind |-> "string", params |-> 0, str |-> str]
ModuleValue(nm) == [kind |-> "module", params |-> 0, str |-> nm]
DictValue(nm) == [kind |-> "dict", params |-> 0, str |-> nm]

NoStarCall == [fn |-> ""]
NoStarResult == [fn |-> ""]

StarIdle ==
    /\ StarGlobals = <<>> /\ predeclared = <<>> /\ script = <<>> /\ projectName = ""
    /\ detectFn = AbsentValue /\ transformFn = AbsentValue /\ starPc = "idle"
    /\ starCall = NoStarCall /\ starResult = NoStarResult /\ submitted = {}

UtilIdle == utilIn = <<>> /\ utilOut = <<>> /\ utilPc = "idle"

FilterIdle ==
    /\ transformerPaths = <<>> /\ selector = {} /\ loadIdx = 0
    /\ filteredTransformerConfigs = <<>> /\ overrideSelectors = <<>>
    /\ conflicts = {} /\ transformerConfigs = <<>> /\ filterPc = "idle"

\* ------------------------------------------------------------------------
\* mergeArtifact on one pair of artifacts
\* ------------------------------------------------------------------------

MergeIdle ==
    /\ pathMaps = <<>> /\ configMaps = <<>> /\ pathMaps0 = <<>> /\ configMaps0 = <<>>
    /\ argA = ZeroArtifact /\ argB = ZeroArtifact
    /\ resAB = NoOutcome /\ resBA = NoOutcome
    /\ alreadySeenArtifacts = <<>> /\ newArtifacts = <<>> /\ newArtifacts0 = <<>>
    /\ out = <<>> /\ idxI = 0 /\ idxJ = 0 /\ mergePc = "idle"
    /\ lastMerge = NoCall /\ refused = {}

ListIdle ==
    /\ alreadySeenArtifacts = <<>> /\ newArtifacts = <<>> /\ newArtifacts0 = <<>>
    /\ out = <<>> /\ idxI = 0 /\ idxJ = 0 /\ lastMerge = NoCall /\ refused = {}
    /\ pathMaps0 = <<>> /\ configMaps0 = <<>>

\* two artifacts with maps of their own, or one artifact passed twice
PairInit ==
    /\ \E av \in PairValues({<<"X", "n1">>}), bv \in PairValues(PairIdentities),
          same \in BOOLEAN :
          /\ pathMaps = <<av.pathsMap, bv.pathsMap>>
          /\ configMaps = <<av.configsMap, bv.configsMap>>
          /\ argA = Allocated(av, 1)
          /\ argB = IF same THEN Allocated(av, 1) ELSE Allocated(bv, 2)
    /\ resAB = NoOutcome /\ resBA = NoOutcome
    /\ mergePc = "pair"
    /\ ListIdle
    /\ FilterIdle /\ FsIdle /\ StarIdle /\ UtilIdle

\* c, merged := mergeArtifact(a, b)
MergeAB ==
    /\ mergePc = "pair" /\ ~resAB.called
    /\ \E ord \in Orders :
          resAB' = Outcome(mergeArtifact(pathMaps, configMaps, argA, argB, ord),
                           argA, argB)
    /\ UNCHANGED <<pathMaps, configMaps, pathMaps0, configMaps0, argA, argB, resBA,
                   alreadySeenArtifacts, newArtifacts, newArtifacts0, out, idxI, idxJ,
                   mergePc, lastMerge, refused>>
    /\ UNCHANGED notMergeVars

\* c, merged := mergeArtifact(b, a), from the same heap
MergeBA ==
    /\ mergePc = "pair" /\ ~resBA.called
    /\ \E ord \in Orders :
          resBA' = Outcome(mergeArtifact(pathMaps, configMaps, argB, argA, ord),
                           argB, argA)
    /\ UNCHANGED <<pathMaps, configMaps, pathMaps0, configMaps0, argA, argB, resAB,
                   alreadySeenArtifacts, newArtifacts, newArtifacts0, out, idxI, idxJ,
                   mergePc, lastMerge, refused>>
    /\ UNCHANGED notMergeVars

PairNext == MergeAB \/ MergeBA

SpecPair == PairInit /\ [][PairNext]_vars

\* ------------------------------------------------------------------------
\* updatedArtifacts and mergeArtifacts, one mergeArtifact call per step
\* ------------------------------------------------------------------------

PairIdle ==
    /\ argA = ZeroArtifact /\ argB = ZeroArtifact
    /\ resAB = NoOutcome /\ resBA = NoOutcome

\* updatedArtifacts(alreadySeenArtifacts, newArtifacts...) is entered; every
\* artifact comes with maps of its own
ListInit ==
    /\ \E n \in 0..MaxLen :
       \E vals \in [1..n -> ListValues], k \in 0..n :
          /\ pathMaps = [r \in 1..n |-> vals[r].pathsMap]
          /\ configMaps = [r \in 1..n |-> vals[r].configsMap]
          /\ alreadySeenArtifacts = [r \in 1..k |-> Allocated(vals[r], r)]
          /\ newArtifacts = [r \in 1..(n - k) |-> Allocated(vals[k + r], k + r)]
    /\ pathMaps0 = pathMaps /\ configMaps0 = configMaps
    /\ newArtifacts0 = newArtifacts
    /\ out = <<>> /\ idxI = 1 /\ idxJ = 1
    /\ mergePc = "seenLoop"
    /\ lastMerge = NoCall /\ refused = {}
    /\ PairIdle
    /\ FilterIdle /\ FsIdle /\ StarIdle /\ UtilIdle

\* updatedArtifacts: mergeArtifact(newArtifact, alreadySeenArtifact)
SeenLoopCall ==
    /\ mergePc = "seenLoop"
    /\ idxI <= Len(newArtifacts) /\ idxJ <= Len(alreadySeenArtifacts)
    /\ \E ord \in Orders :
          LET r == mergeArtifact(pathMaps, configMaps, newArtifacts[idxI],
                                 alreadySeenArtifacts[idxJ], ord)
          IN  /\ pathMaps' = r.pathMaps
              /\ configMaps' = r.configMaps
              /\ lastMerge' = Returned(r)
              /\ IF r.merged
                 THEN /\ newArtifacts' = [newArtifacts EXCEPT ![idxI] = r.c]
                      /\ idxI' = idxI + 1 /\ idxJ' = 1
                 ELSE /\ newArtifacts' = newArtifacts
                      /\ idxI' = idxI /\ idxJ' = idxJ + 1
    /\ UNCHANGED <<pathMaps0, configMaps0, argA, argB, resAB, resBA,
                   alreadySeenArtifacts, newArtifacts0, out, mergePc, refused>>
    /\ UNCHANGED notMergeVars

\* updatedArtifacts: no seen artifact merged with newArtifacts[i]
SeenLoopNext ==
    /\ mergePc = "seenLoop"
    /\ idxI <= Len(newArtifacts) /\ idxJ > Len(alreadySeenArtifacts)
    /\ idxI' = idxI + 1 /\ idxJ' = 1
    /\ UNCHANGED <<pathMaps, configMaps, pathMaps0, configMaps0, argA, argB, resAB,
                   resBA, alreadySeenArtifacts, newArtifacts, newArtifacts0, out,
                   mergePc, lastMerge, refused>>
    /\ UNCHANGED notMergeVars

\* updatedArtifacts: return mergeArtifacts(newArtifacts)
SeenLoopExit ==
    /\ mergePc = "seenLoop"
    /\ idxI > Len(newArtifacts)
    /\ mergePc' = "mergeLoop" /\ out' = <<>> /\ idxI' = 1 /\ idxJ' = 1
    /\ lastMerge' = NoCall
    /\ UNCHANGED <<pathMaps, configMaps, pathMaps0, configMaps0, argA, argB, resAB,
                   resBA, alreadySeenArtifacts, newArtifacts, newArtifacts0, refused>>
    /\ UNCHANGED notMergeVars

\* mergeArtifacts: mergeArtifact(oldArtifact, newArtifact)
MergeLoopCall ==
    /\ mergePc = "mergeLoop"
    /\ idxI <= Len(newArtifacts) /\ idxJ <= Len(out)
    /\ \E ord \in Orders :
          LET r == mergeArtifact(pathMaps, configMaps, newArtifacts[idxI],
                                 out[idxJ], ord)
          IN  /\ pathMaps' = r.pathMaps
              /\ configMaps' = r.configMaps
              /\ lastMerge' = Returned(r)
              /\ refused' = IF r.refusedKey # "" THEN refused \cup {<<idxI, idxJ>>}
                            ELSE refused
              /\ IF r.merged
                 THEN /\ out' = [out EXCEPT ![idxJ] = r.c]
                      /\ idxI' = idxI + 1 /\ idxJ' = 1
                 ELSE /\ out' = out
                      /\ idxI' = idxI /\ idxJ' = idxJ + 1
    /\ UNCHANGED <<pathMaps0, configMaps0, argA, argB, resAB, resBA,
                   alreadySeenArtifacts, newArtifacts, newArtifacts0, mergePc>>
    /\ UNCHANGED notMergeVars

\* mergeArtifacts: oldArtifact merged with nothing and is appended
MergeLoopAppend ==
    /\ mergePc = "mergeLoop"
    /\ idxI <= Len(newArtifacts) /\ idxJ > Len(out)
    /\ out' = Append(out, newArtifacts[idxI])
    /\ idxI' = idxI + 1 /\ idxJ' = 1
    /\ UNCHANGED <<pathMaps, configMaps, pathMaps0, configMaps0, argA, argB, resAB,
                   resBA, alreadySeenArtifacts, newArtifacts, newArtifacts0,
                   mergePc, lastMerge, refused>>
    /\ UNCHANGED notMergeVars

\* mergeArtifacts returns
MergeLoopExit ==
    /\ mergePc = "mergeLoop"
    /\ idxI > Len(newArtifacts)
    /\ mergePc' = "done"
    /\ UNCHANGED <<pathMaps, configMaps, pathMaps0, configMaps0, argA, argB, resAB,
                   resBA, alreadySeenArtifacts, newArtifacts, newArtifacts0, out,
                   idxI, idxJ, lastMerge, refused>>
    /\ UNCHANGED notMergeVars

ListNext ==
    \/ SeenLoopCall \/ SeenLoopNext \/ SeenLoopExit
    \/ MergeLoopCall \/ MergeLoopAppend \/ MergeLoopExit

SpecList == ListInit /\ [][ListNext]_vars

\* ------------------------------------------------------------------------
\* Properties of the artifact merge
\* ------------------------------------------------------------------------

Identity(art) == <<art.type, art.name>>

SetOf(l) == {l[n] : n \in 1..Len(l)}

NoRepeat(l) == \A m, n \in 1..Len(l) : l[m] = l[n] => m = n

\* the contents of the arguments of mergeArtifact before the call
ViewA == ArtifactView(pathMaps, configMaps, argA)
ViewB == ArtifactView(pathMaps, configMaps, argB)

OnePerIdentity(list) ==
    \A m, n \in 1..Len(list) : Identity(list[m]) = Identity(list[n]) => m = n

\* C1 as stated: the list returned by mergeArtifacts holds at most one artifact
\* per (type, name) pair.
C1_OnePerIdentity == mergePc = "done" => OnePerIdentity(out)

\* C1, amended: the list returned by mergeArtifacts holds at most one artifact
\* per (type, name) pair whenever none of its mergeArtifact calls was refused.
C1_OnePerIdentityUnlessRefused ==
    (mergePc = "done" /\ refused = {}) => OnePerIdentity(out)

C1_Witness ==
    /\ mergePc = "done" /\ refused = {}
    /\ Len(newArtifacts) = 3 /\ Len(out) = 2

\* C2 as stated: mergeArtifact(a, b) returns merged = true, with the type and
\* name of a, exactly when a and b have the same type and the same name.
C2_MergedIffSameIdentity ==
    resAB.called =>
        /\ resAB.merged <=> Identity(argA) = Identity(argB)
        /\ resAB.merged => (resAB.c.name = argA.name /\ resAB.c.type = argA.type)

\* C2, amended: mergeArtifact(a, b) returns merged = true, with the type and
\* name of a, exactly when a and b have the same type and name and no typed
\* config Merge refused; in every other case it returns merged = false.
C2_MergedIffSameIdentityNotRefused ==
    resAB.called =>
        /\ resAB.merged <=> (Identity(argA) = Identity(argB) /\ resAB.refusedKey = "")
        /\ resAB.merged => (resAB.c.name = argA.name /\ resAB.c.type = argA.type)

C2_Witness ==
    /\ resAB.called /\ resAB.merged
    /\ argA.configs # NilRef /\ argB.configs # NilRef /\ argA # argB
    /\ ViewA.configsMap["T"].kind = "typed" /\ ViewB.configsMap["T"].kind = "typed"

\* C3: when a typed Merge refuses, mergeArtifact reports merged = false and
\* mergeArtifacts keeps both artifacts: the entry the merge was tried with stays
\* in the result and the refused artifact ends up in another entry.
C3_RefusalKeepsBoth ==
    /\ lastMerge.refusedKey # "" => ~lastMerge.merged
    /\ \A call \in refused :
          LET i == call[1]
              j == call[2]
          IN  /\ j <= Len(out)
              /\ Identity(out[j]) = Identity(newArtifacts[i])
              /\ (idxI > i \/ mergePc = "done") =>
                    \E j2 \in 1..Len(out) :
                        j2 # j /\ Identity(out[j2]) = Identity(newArtifacts[i])

C3_Witness ==
    /\ mergePc = "done" /\ refused # {}
    /\ Len(out) >= 2 /\ ~OnePerIdentity(out)

\* every config key the two arguments share decodes (registered kind) or holds
\* the same value on both sides (generic)
SharedConfigsAgree ==
    \A k \in ConfigKinds :
        (ViewA.configsMap[k].kind # "absent" /\ ViewB.configsMap[k].kind # "absent")
            => IF k \in ConfigTypes
               THEN Decodes(ViewA.configsMap[k]) /\ Decodes(ViewB.configsMap[k])
               ELSE ViewA.configsMap[k] = ViewB.configsMap[k]

SamePathSets(v, w) ==
    \A k \in PathKinds : SetOf(v.pathsMap[k].list) = SetOf(w.pathsMap[k].list)

\* C4 as stated: when both merges succeed, mergeArtifact(a, b) and
\* mergeArtifact(b, a) have the same name, type, configs and the same set of
\* paths per path kind.
C4_Commutative ==
    (resAB.called /\ resBA.called /\ resAB.merged /\ resBA.merged) =>
        /\ resAB.view.name = resBA.view.name
        /\ resAB.view.type = resBA.view.type
        /\ resAB.view.configsMap = resBA.view.configsMap
        /\ SamePathSets(resAB.view, resBA.view)

\* C4, amended: when both merges succeed, mergeArtifact(a, b) and
\* mergeArtifact(b, a) have the same name, type and set of paths per path kind;
\* their configs are the same when every shared key of a registered kind
\* decodes on both sides and every shared generic key holds equal values.
C4_CommutativeOnAgreeingConfigs ==
    (resAB.called /\ resBA.called /\ resAB.merged /\ resBA.merged) =>
        /\ resAB.view.name = resBA.view.name
        /\ resAB.view.type = resBA.view.type
        /\ SamePathSets(resAB.view, resBA.view)
        /\ SharedConfigsAgree =>
              /\ resAB.view.configsMap = resBA.view.configsMap
              /\ resAB.view.configsNil = resBA.view.configsNil

C4_Witness ==
    /\ resAB.called /\ resBA.called /\ resAB.merged /\ resBA.merged
    /\ argA.paths = 1 /\ argB.paths = 2 /\ argA.configs = 1 /\ argB.configs = 2
    /\ ViewA.pathsMap # ViewB.pathsMap
    /\ ViewA.configsMap["T"].kind = "typed" /\ ViewB.configsMap["T"].kind = "typed"
    /\ ViewA.configsMap # ViewB.configsMap
    /\ SharedConfigsAgree

\* C5: mergeArtifact(a, a) returns merged = true and an artifact with the name,
\* type, paths and configs of a.
C5_SelfMerge ==
    (resAB.called /\ ViewA = ViewB) => (resAB.merged /\ resAB.view = ViewA)

C5_Witness ==
    /\ resAB.called /\ argB = argA /\ resAB.merged
    /\ argA.paths # NilRef /\ argA.configs # NilRef
    /\ ViewA.pathsMap["k1"].present /\ ViewA.configsMap["T"].kind = "typed"

UnionOfPaths(k, res) ==
    SetOf(res.view.pathsMap[k].list) =
        SetOf(ViewA.pathsMap[k].list) \cup SetOf(ViewB.pathsMap[k].list)

\* C6 as stated: for every path kind k the merged paths[k] holds every path of
\* either input and no path more than once, whatever the input lists.
C6_PathsAreSetUnion ==
    (resAB.called /\ resAB.merged) =>
        \A k \in PathKinds :
            UnionOfPaths(k, resAB) /\ NoRepeat(resAB.view.pathsMap[k].list)

\* C6, amended: for every path kind k the merged paths[k] holds exactly the
\* paths of either input, and no path more than once provided neither input
\* list repeats a path.
C6_PathsAreSetUnionOfRepeatFree ==
    (resAB.called /\ resAB.merged) =>
        \A k \in PathKinds :
            /\ UnionOfPaths(k, resAB)
            /\ (NoRepeat(ViewA.pathsMap[k].list) /\ NoRepeat(ViewB.pathsMap[k].list))
                  => NoRepeat(resAB.view.pathsMap[k].list)

C6_Witness ==
    /\ resAB.called /\ resAB.merged
    /\ argA.paths = 1 /\ argB.paths = 2
    /\ ViewA.pathsMap["k1"].list = <<"p">> /\ ViewB.pathsMap["k1"].list = <<"q", "p">>
    /\ resAB.view.pathsMap["k1"].list = <<"p", "q">>

\* ------------------------------------------------------------------------
\* Transformer descriptors and getFilteredTransformers
\* ------------------------------------------------------------------------

TransformerNames == {"A", "B"}

\* transformertypes.TransformerKind
TransformerKind == "Transformer"

\* transformertypes.LabelName: the key of the label every descriptor gets
LabelName == "name"

\* transformerTypes: the classes registered in the host
transformerTypes == {"Starlark"}

TierDefault == <<"tier", "default">>

\* the override field of a descriptor file: absent, a label selector, or
\* something that does not parse as a label selector
NoOverride == [given |-> FALSE, parses |-> TRUE, matchLabels |-> {}]
OverrideOf(reqs) == [given |-> TRUE, parses |-> TRUE, matchLabels |-> reqs]
BadOverride == [given |-> TRUE, parses |-> FALSE, matchLabels |-> {}]

DescriptorFile(rd, kd, nm, lb, ov, cl) ==
    [readable |-> rd, kind |-> kd, name |-> nm, labels |-> lb, override |-> ov,
     class |-> cl, unknownFields |-> FALSE]

\* the same file with a field the descriptor schema does not have
WithUnknownField(f) == [f EXCEPT !.unknownFields = TRUE]

\* the descriptor files handed to getFilteredTransformers
DescriptorFiles ==
    {DescriptorFile(TRUE, "Transformer", "A", {}, OverrideOf({TierDefault}), "Starlark"),
     DescriptorFile(TRUE, "Transformer", "A", {}, OverrideOf({TierDefault}), "Unknown"),
     DescriptorFile(TRUE, "Transformer", "A", {TierDefault}, NoOverride, "Starlark"),
     DescriptorFile(TRUE, "Transformer", "B", {TierDefault}, NoOverride, "Starlark"),
     DescriptorFile(TRUE, "Transformer", "B", {}, OverrideOf({}), "Starlark"),
     DescriptorFile(TRUE, "Transformer", "B", {TierDefault},
                    OverrideOf({<<"name", "A">>}), "Starlark"),
     DescriptorFile(TRUE, "Transformer", "B", {TierDefault}, BadOverride, "Unknown"),
     DescriptorFile(TRUE, "Cluster", "B", {}, OverrideOf({TierDefault}), "Starlark"),
     DescriptorFile(FALSE, "Transformer", "A", {}, OverrideOf({TierDefault}), "Starlark"),
     WithUnknownField(DescriptorFile(TRUE, "Transformer", "A", {TierDefault}, NoOverride,
                                     "Starlark"))}

\* the selectors the user can give: everything, or tier=default
UserSelectors == {{}, {TierDefault}}

NilSelector == [nil |-> TRUE, matchLabels |-> {}]
SelectorOf(reqs) == [nil |-> FALSE, matchLabels |-> reqs]

\* labels.Selector.Matches: every requirement of the selector is a label
Matches(sel, labels) == sel \subseteq labels

\* getSelectorFromInterface: nil for an absent or empty selector
getSelectorFromInterface(sel) ==
    IF ~sel.given THEN [err |-> FALSE, selector |-> NilSelector]
    ELSE IF ~sel.parses THEN [err |-> TRUE, selector |-> NilSelector]
    ELSE IF sel.matchLabels # {} THEN [err |-> FALSE, selector |-> SelectorOf(sel.matchLabels)]
    ELSE [err |-> FALSE, selector |-> NilSelector]

NoTransformer == [present |-> FALSE, name |-> "", labels |-> {}, class |-> "",
                  overrideSelector |-> NilSelector, filePath |-> 0]

\* common.ReadMove2KubeYamlStrict: a file with an unknown field is an error
ReadMove2KubeYamlStrict(f) == [err |-> ~f.readable \/ f.unknownFields]

\* common.ReadMove2KubeYaml: yaml.Unmarshal leaves fields it does not know aside
ReadMove2KubeYaml(f) == [err |-> ~f.readable]

\* a getTransformerConfig without the check of the kind
getTransformerConfigAnyKind(f, path) ==
    IF ReadMove2KubeYaml(f).err THEN [err |-> TRUE, tc |-> NoTransformer]
    ELSE [err |-> FALSE,
          tc |-> [present |-> TRUE, name |-> f.name,
                  labels |-> f.labels \cup {<<LabelName, f.name>>},
                  class |-> f.class,
                  overrideSelector |-> getSelectorFromInterface(f.override).selector,
                  filePath |-> path]]

\* getTransformerConfig of the descriptor file f found at path
getTransformerConfig(f, path) ==
    IF ReadMove2KubeYaml(f).err THEN [err |-> TRUE, tc |-> NoTransformer]
    ELSE IF f.kind # TransformerKind THEN [err |-> TRUE, tc |-> NoTransformer]
    ELSE [err |-> FALSE,
          tc |-> [present |-> TRUE, name |-> f.name,
                  labels |-> f.labels \cup {<<LabelName, f.name>>},
                  class |-> f.class,
                  overrideSelector |-> getSelectorFromInterface(f.override).selector,
                  filePath |-> path]]

\* the conflict getFilteredTransformers reports when tc meets a stored
\* descriptor of the same name
ReportConflict(reported, stored, tc) ==
    IF stored[tc.name].present
    THEN reported \cup {[name |-> tc.name, ignored |-> stored[tc.name].filePath,
                         other |-> tc.filePath]}
    ELSE reported

\* an override collection that waits for the class check
CollectOverrideOfRegistered(collected, tc) ==
    IF ~tc.overrideSelector.nil /\ tc.class \in transformerTypes
    THEN Append(collected, tc.overrideSelector)
    ELSE collected

\* getFilteredTransformers: the override selector of a descriptor that passed
\* the user's selector is collected
CollectOverride(collected, tc) ==
    IF ~tc.overrideSelector.nil THEN Append(collected, tc.overrideSelector)
    ELSE collected

\* a store that keeps the descriptor it already has
StoreTransformerIfAbsent(stored, tc) ==
    IF tc.class \in transformerTypes /\ ~stored[tc.name].present
    THEN [stored EXCEPT ![tc.name] = tc]
    ELSE stored

\* getFilteredTransformers: a descriptor of a registered class is stored under
\* its name
StoreTransformer(stored, tc) ==
    IF tc.class \in transformerTypes THEN [stored EXCEPT ![tc.name] = tc]
    ELSE stored

\* a second loop that ignores nothing
RemoveOverriddenNothing(stored, collected) == stored

\* getFilteredTransformers, second loop: the stored descriptors whose labels no
\* collected override selector matches
RemoveOverridden(stored, collected) ==
    [tn \in TransformerNames |->
        IF /\ stored[tn].present
           /\ \E n \in 1..Len(collected) :
                 Matches(collected[n].matchLabels, stored[tn].labels)
        THEN NoTransformer
        ELSE stored[tn]]

\* getFilteredTransformers is entered
FilterInit ==
    /\ \E n \in 0..MaxTransformers :
          transformerPaths \in [1..n -> DescriptorFiles]
    /\ selector \in UserSelectors
    /\ loadIdx = 1
    /\ filteredTransformerConfigs = [tn \in TransformerNames |-> NoTransformer]
    /\ overrideSelectors = <<>>
    /\ conflicts = {}
    /\ transformerConfigs = [tn \in TransformerNames |-> NoTransformer]
    /\ filterPc = "load"
    /\ MergeIdle /\ FsIdle /\ StarIdle /\ UtilIdle

\* getFilteredTransformers, first loop: one descriptor file
LoadTransformer ==
    /\ filterPc = "load" /\ loadIdx <= Len(transformerPaths)
    /\ LET r == getTransformerConfig(transformerPaths[loadIdx], loadIdx)
           tc == r.tc
       IN  IF r.err
           THEN UNCHANGED <<filteredTransformerConfigs, overrideSelectors, conflicts>>
           ELSE /\ conflicts' = ReportConflict(conflicts, filteredTransformerConfigs, tc)
                /\ IF ~Matches(selector, tc.labels)
                   THEN UNCHANGED <<filteredTransformerConfigs, overrideSelectors>>
                   ELSE /\ overrideSelectors' = CollectOverride(overrideSelectors, tc)
                        /\ filteredTransformerConfigs' =
                              StoreTransformer(filteredTransformerConfigs, tc)
    /\ loadIdx' = loadIdx + 1
    /\ UNCHANGED <<transformerPaths, selector, transformerConfigs, filterPc>>
    /\ UNCHANGED notFilterVars

\* getFilteredTransformers: the first loop is over
LoadDone ==
    /\ filterPc = "load" /\ loadIdx > Len(transformerPaths)
    /\ filterPc' = "select"
    /\ UNCHANGED <<transformerPaths, selector, loadIdx, filteredTransformerConfigs,
                   overrideSelectors, conflicts, transformerConfigs>>
    /\ UNCHANGED notFilterVars

\* getFilteredTransformers: the second loop and the return
SelectTransformers ==
    /\ filterPc = "select"
    /\ transformerConfigs' = RemoveOverridden(filteredTransformerConfigs, overrideSelectors)
    /\ filterPc' = "done"
    /\ UNCHANGED <<transformerPaths, selector, loadIdx, filteredTransformerConfigs,
                   overrideSelectors, conflicts>>
    /\ UNCHANGED notFilterVars

FilterNext == LoadTransformer \/ LoadDone \/ SelectTransformers

SpecFilter == FilterInit /\ [][FilterNext]_vars

\* ------------------------------------------------------------------------
\* Properties of getFilteredTransformers
\* ------------------------------------------------------------------------

Visited == 1..Len(transformerPaths)

\* the descriptor read from the i-th file visited
Loaded(i) == getTransformerConfig(transformerPaths[i], i).tc

\* the i-th file is a descriptor that matches the user's selector
Passes(i) ==
    /\ ~getTransformerConfig(transformerPaths[i], i).err
    /\ Matches(selector, Loaded(i).labels)

\* the i-th file passes both filters: the user's selector and the class check
Survives(i) == Passes(i) /\ Loaded(i).class \in transformerTypes

\* the i-th file declares an override selector that matches the labels of tc
Overrides(i, tc) ==
    /\ ~Loaded(i).overrideSelector.nil
    /\ Matches(Loaded(i).overrideSelector.matchLabels, tc.labels)

InResult(i) ==
    \E tn \in TransformerNames :
        transformerConfigs[tn].present /\ transformerConfigs[tn].filePath = i

\* no file visited after the i-th one survives with the same name
LastOfName(i) ==
    \A m \in Visited : (m > i /\ Survives(m)) => Loaded(m).name # Loaded(i).name

C8_OverridesOnlyFromSurvivors ==
    filterPc = "done" =>
        \A j \in Visited :
            (Survives(j) /\ LastOfName(j) /\ ~InResult(j))
                => \E i \in Visited : Survives(i) /\ Overrides(i, Loaded(j))

\* C9 as stated: of two descriptors of the same name that both pass the
\* filters, the one visited first is the one the result holds under that name.
C9_FirstDescriptorKept ==
    filterPc = "done" =>
        \A i, j \in Visited :
            (/\ i < j /\ Survives(i) /\ Survives(j)
             /\ Loaded(i).name = Loaded(j).name
             /\ transformerConfigs[Loaded(i).name].present)
                => transformerConfigs[Loaded(i).name].filePath # j

\* C9, amended: of the descriptors of one name that pass the filters, the one
\* visited last is the one kept: the result holds it under that name unless an
\* override selector matches it, and each earlier one was reported as ignored.
C9_LastDescriptorKept ==
    filterPc = "done" =>
        \A i, j \in Visited :
            (/\ i < j /\ Survives(i) /\ Survives(j)
             /\ Loaded(i).name = Loaded(j).name /\ LastOfName(j))
                => /\ ~InResult(i)
                   /\ InResult(j) <=> \A m \in Visited : Passes(m) => ~Overrides(m, Loaded(j))
                   /\ \E c \in conflicts : c.name = Loaded(i).name /\ c.ignored = i

C9_Witness ==
    /\ filterPc = "done"
    /\ \E i, j \in Visited :
          /\ i < j /\ Survives(i) /\ Survives(j)
          /\ Loaded(i).name = Loaded(j).name
          /\ transformerPaths[i] # transformerPaths[j]
          /\ InResult(j)

\* ------------------------------------------------------------------------
\* Paths, and the filesystem and archive builtins of the Starlark host
\* ------------------------------------------------------------------------

AbsPath(segs) == [abs |-> TRUE, segs |-> segs]
RelPath(segs) == [abs |-> FALSE, segs |-> segs]

\* the working directory of the process
Cwd == <<"work">>

\* filepath.Clean on the elements of a path
RECURSIVE CleanSegs(_, _, _)
CleanSegs(acc, rest, abs) ==
    IF rest = <<>> THEN acc
    ELSE IF Head(rest) # ".." THEN CleanSegs(Append(acc, Head(rest)), Tail(rest), abs)
    ELSE IF acc # <<>> /\ acc[Len(acc)] # ".."
         THEN CleanSegs(SubSeq(acc, 1, Len(acc) - 1), Tail(rest), abs)
    ELSE IF abs THEN CleanSegs(acc, Tail(rest), abs)
    ELSE CleanSegs(Append(acc, ".."), Tail(rest), abs)

\* filepath.Clean
Clean(p) == [abs |-> p.abs, segs |-> CleanSegs(<<>>, p.segs, p.abs)]

\* filepath.Abs
Abs(p) == IF p.abs THEN Clean(p) ELSE Clean(AbsPath(Cwd \o p.segs))

\* the empty string
IsEmptyPath(p) == ~p.abs /\ p.segs = <<>>

\* filepath.Join of two elements: empty elements are ignored
Join(e1, e2) ==
    IF IsEmptyPath(e1) THEN Clean(e2)
    ELSE Clean([abs |-> e1.abs, segs |-> e1.segs \o e2.segs])

\* common.IsParent
IsParent(child, parent) ==
    LET c == Abs(child).segs
        q == Abs(parent).segs
    IN  \/ q = <<>>
        \/ /\ Len(q) <= Len(c)
           /\ \A n \in 1..Len(q) : c[n] = q[n]

\* the directories a scripted transformer may access: source, context, temp,
\* output and resources
AllowedRoots == {AbsPath(<<"src">>), AbsPath(<<"ctx">>), AbsPath(<<"tmp">>),
                 AbsPath(<<"out">>), AbsPath(<<"ctx", "resources">>)}

\* Environment.IsPathValid
IsPathValid(path) == \E root \in AllowedRoots : IsParent(path, root)

\* the paths a script passes to the builtins
ScriptPaths ==
    {AbsPath(<<"src", "f">>), AbsPath(<<"out", "f">>),
     AbsPath(<<"etc", "passwd">>), AbsPath(<<"src", "..", "etc", "passwd">>),
     AbsPath(<<"etc", "..", "src", "f">>), RelPath(<<"f">>), RelPath(<<>>)}

\* the files that exist before any script runs
InitialDisk == {AbsPath(<<"src">>), AbsPath(<<"src", "f">>), AbsPath(<<"etc", "passwd">>)}

FsOp(kind, path) == [op |-> kind, path |-> path]

Returns(val, ops) == [err |-> FALSE, invalid |-> FALSE, value |-> val, ops |-> ops]
Fails(ops) == [err |-> TRUE, invalid |-> FALSE, value |-> "None", ops |-> ops]
InvalidPath == [err |-> TRUE, invalid |-> TRUE, value |-> "None", ops |-> <<>>]

OnDisk(d, path) == Abs(path) \in d

\* a read that opens the file before it checks the path
getStarlarkFSReadUnchecked(d, call) ==
    IF ~call.argsOk THEN Fails(<<>>)
    ELSE IF ~OnDisk(d, call.paths[1])
         THEN Returns("None", <<FsOp("read", call.paths[1])>>)
    ELSE IF ~IsPathValid(call.paths[1]) THEN InvalidPath
    ELSE Returns("data", <<FsOp("read", call.paths[1])>>)

\* fs.read(path)
getStarlarkFSRead(d, call) ==
    IF ~call.argsOk THEN Fails(<<>>)
    ELSE IF ~IsPathValid(call.paths[1]) THEN InvalidPath
    ELSE IF ~OnDisk(d, call.paths[1])
         THEN Returns("None", <<FsOp("read", call.paths[1])>>)
    ELSE Returns("data", <<FsOp("read", call.paths[1])>>)

\* fs.exists(path)
getStarlarkFSExists(d, call) ==
    IF ~call.argsOk THEN Fails(<<>>)
    ELSE IF ~IsPathValid(call.paths[1]) THEN InvalidPath
    ELSE Returns(IF OnDisk(d, call.paths[1]) THEN "True" ELSE "False",
                 <<FsOp("stat", call.paths[1])>>)

\* fs.is_dir(path)
getStarlarkFSIsDir(d, call) ==
    IF ~call.argsOk THEN Fails(<<>>)
    ELSE IF ~IsPathValid(call.paths[1]) THEN InvalidPath
    ELSE IF ~OnDisk(d, call.paths[1]) THEN Fails(<<FsOp("stat", call.paths[1])>>)
    ELSE Returns("Bool", <<FsOp("stat", call.paths[1])>>)

\* fs.read_dir(path)
getStarlarkFSReadDir(d, call) ==
    IF ~call.argsOk THEN Fails(<<>>)
    ELSE IF ~IsPathValid(call.paths[1]) THEN InvalidPath
    ELSE IF ~OnDisk(d, call.paths[1]) THEN Fails(<<FsOp("read", call.paths[1])>>)
    ELSE Returns("names", <<FsOp("read", call.paths[1])>>)

\* fs.write(filepath, data, perm?)
getStarlarkFSWrite(d, call) ==
    IF ~call.argsOk THEN Fails(<<>>)
    ELSE IF IsEmptyPath(call.paths[1]) THEN Fails(<<>>)
    ELSE IF ~IsPathValid(call.paths[1]) THEN InvalidPath
    ELSE IF call.other = "" THEN Fails(<<>>)
    ELSE Returns("length", <<FsOp("write", call.paths[1])>>)

\* fs.get_files_with_pattern(filepath, ext)
getStarlarkFSGetFilesWithPattern(d, call) ==
    IF ~call.argsOk THEN Fails(<<>>)
    ELSE IF IsEmptyPath(call.paths[1]) THEN Fails(<<>>)
    ELSE IF ~IsPathValid(call.paths[1]) THEN InvalidPath
    ELSE IF ~OnDisk(d, call.paths[1]) THEN Fails(<<FsOp("stat", call.paths[1])>>)
    ELSE Returns("files", <<FsOp("stat", call.paths[1]), FsOp("read", call.paths[1])>>)

\* fs.get_yamls_with_type_meta(inputpath, kind)
getStarlarkFSGetYamlsWithTypeMeta(d, call) ==
    IF ~call.argsOk THEN Fails(<<>>)
    ELSE IF call.other = "" THEN Fails(<<>>)
    ELSE IF ~IsPathValid(call.paths[1]) THEN InvalidPath
    ELSE IF ~OnDisk(d, call.paths[1]) THEN Fails(<<FsOp("stat", call.paths[1])>>)
    ELSE Returns("files", <<FsOp("stat", call.paths[1]), FsOp("read", call.paths[1])>>)

\* fs.find_xml_path(inputXmlFilePath, xmlpathexpr)
getStarlarkFindXmlPath(d, call) ==
    IF ~call.argsOk THEN Fails(<<>>)
    ELSE IF call.other = "" THEN Fails(<<>>)
    ELSE IF ~IsPathValid(call.paths[1]) THEN InvalidPath
    ELSE IF ~OnDisk(d, call.paths[1]) THEN Fails(<<FsOp("read", call.paths[1])>>)
    ELSE Returns("values", <<FsOp("read", call.paths[1])>>)

\* fs.path_join(pathelem1, pathelem2): the joined path is the one checked
getStarlarkFSPathJoin(d, call) ==
    IF ~call.argsOk THEN Fails(<<>>)
    ELSE IF ~IsPathValid(Join(call.paths[1], call.paths[2])) THEN InvalidPath
    ELSE Returns("path", <<>>)

\* fs.path_base(path)
getStarlarkFSPathBase(d, call) ==
    IF ~call.argsOk THEN Fails(<<>>)
    ELSE IF ~IsPathValid(call.paths[1]) THEN InvalidPath
    ELSE Returns("base", <<>>)

\* fs.path_rel(basePath, targetPath): both are cleaned, then checked
getStarlarkFSPathRel(d, call) ==
    IF ~call.argsOk THEN Fails(<<>>)
    ELSE IF ~IsPathValid(Clean(call.paths[1])) THEN InvalidPath
    ELSE IF ~IsPathValid(Clean(call.paths[2])) THEN InvalidPath
    ELSE IF Clean(call.paths[1]).abs # Clean(call.paths[2]).abs THEN Fails(<<>>)
    ELSE Returns("rel", <<>>)

\* common.CreateTarArchive...StringWrapper: the string handed back for srcPath
CreateTarArchiveStringWrapper(d, srcPath) ==
    IF OnDisk(d, srcPath) THEN Returns("archive", <<FsOp("read", srcPath)>>)
    ELSE Returns("end of archive", <<FsOp("stat", srcPath)>>)

\* archive.arch_tar_gzip_str(dir)
getStarlarkArchTarGZipStr(d, call) ==
    IF ~call.argsOk THEN Fails(<<>>)
    ELSE IF ~IsPathValid(call.paths[1]) THEN InvalidPath
    ELSE CreateTarArchiveStringWrapper(d, call.paths[1])

\* archive.arch_tar_str(dir)
getStarlarkArchTarStr(d, call) ==
    IF ~call.argsOk THEN Fails(<<>>)
    ELSE IF ~IsPathValid(call.paths[1]) THEN InvalidPath
    ELSE CreateTarArchiveStringWrapper(d, call.paths[1])

\* the script calls a builtin; the files it writes are on the disk afterwards
CallBuiltin(call, r) ==
    /\ fsCall' = call
    /\ fsResult' = [err |-> r.err, invalid |-> r.invalid, value |-> r.value]
    /\ fsOps' = r.ops
    /\ disk' = disk \cup {Abs(r.ops[n].path) :
                            n \in {m \in 1..Len(r.ops) : r.ops[m].op = "write"}}
    /\ UNCHANGED notFsVars

FsInit ==
    /\ fsCall = NoFsCall /\ fsResult = NoFsResult /\ fsOps = <<>>
    /\ disk = InitialDisk
    /\ MergeIdle /\ FilterIdle /\ StarIdle /\ UtilIdle

\* the calls a script can make of a builtin that takes one path, a path and a
\* string, or two paths; ok is whether the arguments unpack
OnePathCalls(fn) ==
    {[fn |-> fn, paths |-> <<p>>, other |-> "", argsOk |-> ok] :
        p \in ScriptPaths, ok \in BOOLEAN}
PathAndStringCalls(fn) ==
    {[fn |-> fn, paths |-> <<p>>, other |-> str, argsOk |-> ok] :
        p \in ScriptPaths, str \in {"", "x"}, ok \in BOOLEAN}
TwoPathCalls(fn) ==
    {[fn |-> fn, paths |-> <<p, q>>, other |-> "", argsOk |-> ok] :
        p \in ScriptPaths, q \in ScriptPaths, ok \in BOOLEAN}

\* the script calls exists
FSExists ==
    \E call \in OnePathCalls("exists") : CallBuiltin(call, getStarlarkFSExists(disk, call))

\* the script calls read
FSRead ==
    \E call \in OnePathCalls("read") : CallBuiltin(call, getStarlarkFSRead(disk, call))

\* the script calls read_dir
FSReadDir ==
    \E call \in OnePathCalls("read_dir") : CallBuiltin(call, getStarlarkFSReadDir(disk, call))

\* the script calls is_dir
FSIsDir ==
    \E call \in OnePathCalls("is_dir") : CallBuiltin(call, getStarlarkFSIsDir(disk, call))

\* the script calls write
FSWrite ==
    \E call \in PathAndStringCalls("write") : CallBuiltin(call, getStarlarkFSWrite(disk, call))

\* the script calls get_files_with_pattern
FSGetFilesWithPattern ==
    \E call \in PathAndStringCalls("get_files_with_pattern") : CallBuiltin(call, getStarlarkFSGetFilesWithPattern(disk, call))

\* the script calls get_yamls_with_type_meta
FSGetYamlsWithTypeMeta ==
    \E call \in PathAndStringCalls("get_yamls_with_type_meta") : CallBuiltin(call, getStarlarkFSGetYamlsWithTypeMeta(disk, call))

\* the script calls find_xml_path
FindXmlPath ==
    \E call \in PathAndStringCalls("find_xml_path") : CallBuiltin(call, getStarlarkFindXmlPath(disk, call))

\* the script calls path_join
FSPathJoin ==
    \E call \in TwoPathCalls("path_join") : CallBuiltin(call, getStarlarkFSPathJoin(disk, call))

\* the script calls path_base
FSPathBase ==
    \E call \in OnePathCalls("path_base") : CallBuiltin(call, getStarlarkFSPathBase(disk, call))

\* the script calls path_rel
FSPathRel ==
    \E call \in TwoPathCalls("path_rel") : CallBuiltin(call, getStarlarkFSPathRel(disk, call))

\* the script calls arch_tar_gzip_str
ArchTarGZipStr ==
    \E call \in OnePathCalls("arch_tar_gzip_str") : CallBuiltin(call, getStarlarkArchTarGZipStr(disk, call))

\* the script calls arch_tar_str
ArchTarStr ==
    \E call \in OnePathCalls("arch_tar_str") : CallBuiltin(call, getStarlarkArchTarStr(disk, call))

FsNext ==
    \/ FSExists
    \/ FSRead
    \/ FSReadDir
    \/ FSIsDir
    \/ FSWrite
    \/ FSGetFilesWithPattern
    \/ FSGetYamlsWithTypeMeta
    \/ FindXmlPath
    \/ FSPathJoin
    \/ FSPathBase
    \/ FSPathRel
    \/ ArchTarGZipStr
    \/ ArchTarStr

SpecFS == FsInit /\ [][FsNext]_vars

\* ------------------------------------------------------------------------
\* Properties of the builtins
\* ------------------------------------------------------------------------

\* the paths a call hands to the filesystem API: its path arguments, for
\* path_join the path its two elements form
CheckedPaths(call) ==
    IF call.fn = "path_join" THEN {Join(call.paths[1], call.paths[2])}
    ELSE {call.paths[n] : n \in 1..Len(call.paths)}

\* C10: a call of an fs or archive builtin whose checked path (its path
\* argument, for path_join the join of its two elements) is not under the
\* allowed roots returns an error and has performed no filesystem read or
\* write; every filesystem access a call performs is on a valid path.
C10_InvalidPathNoAccess ==
    /\ (fsCall.fn # "" /\ \E p \in CheckedPaths(fsCall) : ~IsPathValid(p))
          => (fsResult.err /\ fsOps = <<>>)
    /\ \A n \in 1..Len(fsOps) : IsPathValid(fsOps[n].path)

\* C10 as stated: a call with any path argument that is not valid returns an
\* error and has performed no filesystem access.
C10_EveryPathArgumentChecked ==
    (fsCall.fn # "" /\ \E n \in 1..Len(fsCall.paths) : ~IsPathValid(fsCall.paths[n]))
        => (fsResult.err /\ fsOps = <<>>)

C10_Witness ==
    /\ fsCall.fn = "read" /\ fsCall.argsOk
    /\ fsCall.paths = <<AbsPath(<<"src", "..", "etc", "passwd">>)>>
    /\ fsResult.err /\ fsResult.invalid /\ fsOps = <<>>
    /\ AbsPath(<<"out", "f">>) \in disk

\* ------------------------------------------------------------------------
\* The Starlark host: Init, DirectoryDetect, Transform and query
\* ------------------------------------------------------------------------

\* the most questions one script puts to the QA engine
MaxQuestions == 2

directoryDetectFnName == "directory_detect"
transformFnName == "transform"
sourceDirVarName == "source_dir"
contextDirVarName == "context_dir"
tempDirVarName == "temp_dir"
templatesRelDirVarName == "templates_reldir"
transformerConfigVarName == "config"
projectVarName == "project"
resourcesDirVarName == "resources_dir"
outputDirVarName == "output_dir"

\* the names the script is promised
VarNames == {projectVarName, transformerConfigVarName, contextDirVarName,
             sourceDirVarName, outputDirVarName, tempDirVarName,
             templatesRelDirVarName, resourcesDirVarName}

\* the modules of setDefaultGlobals that the host itself defines
ModuleNames == {"fs", "crypto", "archive"}

\* the names a script defines at its top level
ScriptNames == {transformFnName, directoryDetectFnName, "validate"}

ProjectNames == {"project", "myproject"}

GlobalNames == VarNames \cup ModuleNames \cup ScriptNames \cup ProjectNames

\* a nil or empty starlark.StringDict
EmptyDict == [n \in GlobalNames |-> AbsentValue]

\* dict[name], the absent value when the dict has no such key
Lookup(dict, name) == IF name \in DOMAIN dict THEN dict[name] ELSE AbsentValue

\* StringDict.Has
Has(dict, name) == Lookup(dict, name).kind # "absent"

\* setDefaultGlobals
setDefaultGlobals == [n \in GlobalNames |->
                        IF n \in ModuleNames THEN ModuleValue(n) ELSE AbsentValue]

\* Init: the globals after the assignments that precede ExecFile, in their order
InitGlobals(pn) ==
    LET g1 == [setDefaultGlobals EXCEPT ![pn] = StringValue(pn)]
        g2 == [g1 EXCEPT ![transformerConfigVarName] = DictValue("tc")]
        g3 == [g2 EXCEPT ![contextDirVarName] = StringValue("/ctx")]
        g4 == [g3 EXCEPT ![sourceDirVarName] = StringValue("/src")]
        g5 == [g4 EXCEPT ![outputDirVarName] = StringValue("/out")]
        g6 == [g5 EXCEPT ![tempDirVarName] = StringValue("/tmp")]
        g7 == [g6 EXCEPT ![templatesRelDirVarName] = StringValue("templates")]
    IN  [g7 EXCEPT ![resourcesDirVarName] = StringValue("/ctx/resources")]

ScriptOf(tf, df, vf, ok) ==
    [defs |-> [n \in ScriptNames |->
                 IF n = transformFnName THEN tf
                 ELSE IF n = directoryDetectFnName THEN df ELSE vf],
     execOk |-> ok]

\* the scripts: what each binds transform, directory_detect and validate to,
\* and whether its top-level code runs without error
Scripts ==
    {sc \in {ScriptOf(tf, df, vf, ok) :
                tf \in {AbsentValue, Function(1), Function(2), StringValue("x")},
                df \in {AbsentValue, Function(1), Function(2), StringValue("x")},
                vf \in {AbsentValue, Function(1), StringValue("x")},
                ok \in BOOLEAN} :
        (sc.defs["validate"] # AbsentValue \/ ~sc.execOk)
            => /\ sc.defs[transformFnName] = Function(2)
               /\ sc.defs[directoryDetectFnName] \in {AbsentValue, Function(1)}}

\* starlark.ExecFile: the globals it returns are the script's own definitions
ScriptGlobals(sc) ==
    [n \in GlobalNames |-> IF n \in ScriptNames THEN sc.defs[n] ELSE AbsentValue]

\* loadDetectFn
loadDetectFn(globals, cur) ==
    IF ~Has(globals, directoryDetectFnName) THEN [err |-> FALSE, fn |-> cur]
    ELSE IF globals[directoryDetectFnName].kind # "function" THEN [err |-> TRUE, fn |-> cur]
    ELSE IF globals[directoryDetectFnName].params # 1 THEN [err |-> TRUE, fn |-> cur]
    ELSE [err |-> FALSE, fn |-> globals[directoryDetectFnName]]

\* a load of transform that accepts any number of parameters
loadTransformFnAnyArity(globals, cur) ==
    IF ~Has(globals, transformFnName) THEN [err |-> TRUE, fn |-> cur]
    ELSE IF globals[transformFnName].kind # "function" THEN [err |-> TRUE, fn |-> cur]
    ELSE [err |-> FALSE, fn |-> globals[transformFnName]]

\* loadTransformFn
loadTransformFn(globals, cur) ==
    IF ~Has(globals, transformFnName) THEN [err |-> TRUE, fn |-> cur]
    ELSE IF globals[transformFnName].kind # "function" THEN [err |-> TRUE, fn |-> cur]
    ELSE IF globals[transformFnName].params # 2 THEN [err |-> TRUE, fn |-> cur]
    ELSE [err |-> FALSE, fn |-> globals[transformFnName]]

\* loadFunctions
loadFunctions(globals, curDetect, curTransform) ==
    LET d == loadDetectFn(globals, curDetect)
        t == loadTransformFn(globals, curTransform)
    IN  IF d.err THEN [err |-> TRUE, detectFn |-> curDetect, transformFn |-> curTransform]
        ELSE IF t.err THEN [err |-> TRUE, detectFn |-> d.fn, transformFn |-> curTransform]
        ELSE [err |-> FALSE, detectFn |-> d.fn, transformFn |-> t.fn]

\* a nil slice or map, and one with items
Nil == [nil |-> TRUE, items |-> <<>>]
Items(x) == [nil |-> FALSE, items |-> x]

\* what a call of a script function comes to: the host fails to convert the
\* arguments, the function raises, its value cannot be unmarshalled, the value
\* does not decode into the result type, or all of it works
ScriptOutcomes == {"marshal", "raise", "unmarshal", "decode", "ok"}

TransformOutputs ==
    {[pathMappings |-> pm, createdArtifacts |-> ca] :
        pm \in {<<>>, <<"pm1">>}, ca \in {<<>>, <<"a1">>, <<"a1", "a2">>}}

ServiceMaps == {<<>>, <<"svc1">>, <<"svc1", "">>}

\* a Transform that hands back what was decoded before the decoding failed
TransformKeepingPartial(fn, outcome, output) ==
    IF outcome = "ok" \/ outcome = "decode"
    THEN [fn |-> "Transform", err |-> outcome # "ok",
          pathMappings |-> Items(output.pathMappings),
          createdArtifacts |-> Items(output.createdArtifacts)]
    ELSE [fn |-> "Transform", err |-> TRUE, pathMappings |-> Nil, createdArtifacts |-> Nil]

\* Starlark.Transform
Transform(fn, outcome, output) ==
    IF outcome = "ok"
    THEN [fn |-> "Transform", err |-> FALSE,
          pathMappings |-> Items(output.pathMappings),
          createdArtifacts |-> Items(output.createdArtifacts)]
    ELSE [fn |-> "Transform", err |-> TRUE, pathMappings |-> Nil, createdArtifacts |-> Nil]

\* executeDetect
executeDetect(fn, outcome, services) ==
    IF fn = AbsentValue THEN [fn |-> "DirectoryDetect", err |-> FALSE, services |-> Nil]
    ELSE IF outcome = "ok"
         THEN [fn |-> "DirectoryDetect", err |-> FALSE, services |-> Items(services)]
    ELSE [fn |-> "DirectoryDetect", err |-> TRUE, services |-> Nil]

\* common.BaseKey, the root of the problem ids, and common.Delim, as strings
\* of characters
BaseKey == <<"m", "o", "v", "e", "2", "k", "u", "b", "e">>
Delim == <<".">>

\* strings.HasPrefix
HasPrefix(str, prefix) ==
    Len(prefix) <= Len(str) /\ SubSeq(str, 1, Len(prefix)) = prefix

\* common.JoinQASubKeys of two sub keys
JoinQASubKeys(x1, x2) == x1 \o Delim \o x2

\* query: the id of the problem after the prefixing
NormaliseId(id) == IF ~HasPrefix(id, BaseKey) THEN JoinQASubKeys(BaseKey, id) ELSE id

\* the ids scripts give their problems
ProblemIds ==
    {<<>>, <<"a">>, <<"a", ".", "b">>, BaseKey, BaseKey \o <<".", "a">>,
     BaseKey \o <<"a">>}

\* the validation names scripts pass to query
Validations == {"", "validate", transformFnName, "fs"}

\* a query whose arguments do not unpack, one whose dict is not a problem, and
\* the well-formed ones; defined is what the script has bound the validation
\* name to when it makes the call, fetchOk whether the QA engine finds an answer
QueryCalls(sc, pc) ==
    {[fn |-> "query", argsOk |-> ok, decodeOk |-> FALSE, id |-> <<"a">>,
      validation |-> "", defined |-> AbsentValue, fetchOk |-> TRUE] : ok \in BOOLEAN}
    \cup
    {c \in [fn : {"query"}, argsOk : {TRUE}, decodeOk : {TRUE}, id : ProblemIds,
            validation : Validations,
            defined : {AbsentValue} \cup {sc.defs[n] : n \in ScriptNames},
            fetchOk : BOOLEAN] :
        /\ c.fetchOk \/ c.validation = ""
        /\ \/ c.defined = Lookup(sc.defs, c.validation)
           \/ pc = "loading" /\ c.defined = AbsentValue}

QueryResult(err, id, asked, validated, fatal) ==
    [fn |-> "query", err |-> err, id |-> id, asked |-> asked, validated |-> validated,
     fatal |-> fatal]

\* getStarlarkQuery: the builtin, run with the globals the host holds
getStarlarkQuery(globals, call) ==
    IF ~call.argsOk \/ ~call.decodeOk THEN QueryResult(TRUE, <<>>, FALSE, FALSE, FALSE)
    ELSE IF call.id = <<>> THEN QueryResult(TRUE, <<>>, FALSE, FALSE, FALSE)
    ELSE LET id == NormaliseId(call.id)
         IN  IF call.validation # "" /\ ~Has(globals, call.validation)
             THEN QueryResult(TRUE, id, FALSE, FALSE, FALSE)
             ELSE IF call.validation # ""
                     /\ Lookup(globals, call.validation).kind # "function"
             THEN QueryResult(TRUE, id, FALSE, FALSE, FALSE)
             ELSE QueryResult(FALSE, id, TRUE, call.validation # "", ~call.fetchOk)

\* the host object is constructed; the script and the project exist
StarInit ==
    /\ script \in Scripts /\ projectName \in ProjectNames
    /\ StarGlobals = EmptyDict /\ predeclared = EmptyDict
    /\ detectFn = AbsentValue /\ transformFn = AbsentValue
    /\ starPc = "new" /\ starCall = NoStarCall /\ starResult = NoStarResult
    /\ submitted = {}
    /\ MergeIdle /\ FilterIdle /\ FsIdle /\ UtilIdle

\* Starlark.Init up to the start of ExecFile
StarlarkInitGlobals ==
    /\ starPc = "new"
    /\ \E cfgOk \in BOOLEAN :
          /\ starCall' = [fn |-> "Init", cfgOk |-> cfgOk]
          /\ IF cfgOk
             THEN /\ StarGlobals' = InitGlobals(projectName)
                  /\ predeclared' = InitGlobals(projectName)
                  /\ starPc' = "loading"
                  /\ UNCHANGED starResult
             ELSE /\ starPc' = "failed"
                  /\ starResult' = [fn |-> "Init", err |-> TRUE]
                  /\ UNCHANGED <<StarGlobals, predeclared>>
    /\ UNCHANGED <<script, projectName, detectFn, transformFn, submitted>>
    /\ UNCHANGED notStarVars

\* Starlark.Init: ExecFile returns, then loadFunctions
StarlarkInitLoad ==
    /\ starPc = "loading"
    /\ IF ~script.execOk
       THEN /\ \E partial \in BOOLEAN :
                 StarGlobals' = IF partial THEN ScriptGlobals(script) ELSE EmptyDict
            /\ starPc' = "failed"
            /\ starResult' = [fn |-> "Init", err |-> TRUE]
            /\ UNCHANGED <<detectFn, transformFn>>
       ELSE LET lf == loadFunctions(ScriptGlobals(script), detectFn, transformFn)
            IN  /\ StarGlobals' = ScriptGlobals(script)
                /\ detectFn' = lf.detectFn
                /\ transformFn' = lf.transformFn
                /\ starPc' = IF lf.err THEN "failed" ELSE "ready"
                /\ starResult' = [fn |-> "Init", err |-> lf.err]
    /\ starCall' = [fn |-> "Init", cfgOk |-> TRUE]
    /\ UNCHANGED <<predeclared, script, projectName, submitted>>
    /\ UNCHANGED notStarVars

\* Starlark.DirectoryDetect
DirectoryDetect ==
    /\ starPc = "ready"
    /\ \E outcome \in ScriptOutcomes, services \in ServiceMaps :
          /\ starCall' = [fn |-> "DirectoryDetect", outcome |-> outcome]
          /\ starResult' = executeDetect(detectFn, outcome, services)
    /\ UNCHANGED <<StarGlobals, predeclared, script, projectName, detectFn,
                   transformFn, starPc, submitted>>
    /\ UNCHANGED notStarVars

\* Starlark.Transform
StarlarkTransform ==
    /\ starPc = "ready"
    /\ \E outcome \in ScriptOutcomes, output \in TransformOutputs :
          /\ starCall' = [fn |-> "Transform", outcome |-> outcome, output |-> output]
          /\ starResult' = Transform(transformFn, outcome, output)
    /\ UNCHANGED <<StarGlobals, predeclared, script, projectName, detectFn,
                   transformFn, starPc, submitted>>
    /\ UNCHANGED notStarVars

\* the script calls query: from its top-level code while ExecFile runs, or
\* from one of its functions later; a question without an answer ends the process
StarlarkQuery ==
    /\ starPc \in {"loading", "ready"}
    /\ Cardinality(submitted) < MaxQuestions
    /\ \E call \in QueryCalls(script, starPc) :
          LET r == getStarlarkQuery(StarGlobals, call)
          IN  /\ starCall' = call
              /\ starResult' = r
              /\ submitted' = IF r.asked THEN submitted \cup {r.id} ELSE submitted
              /\ starPc' = IF r.fatal THEN "exited" ELSE starPc
    /\ UNCHANGED <<StarGlobals, predeclared, script, projectName, detectFn, transformFn>>
    /\ UNCHANGED notStarVars

StarNext ==
    \/ StarlarkInitGlobals
    \/ StarlarkInitLoad
    \/ DirectoryDetect
    \/ StarlarkTransform
    \/ StarlarkQuery

SpecStar == StarInit /\ [][StarNext]_vars

\* ------------------------------------------------------------------------
\* Properties of the Starlark host
\* ------------------------------------------------------------------------

\* Init has returned without error
InitSucceeded == starPc = "ready" \/ (starPc = "exited" /\ transformFn # AbsentValue)

\* C11: Init succeeds only if the script binds transform to a function of
\* exactly 2 parameters and directory_detect is absent or a function of exactly
\* 1 parameter; when directory_detect is absent, DirectoryDetect returns no
\* services and no error.
C11_InitRequiresFunctions ==
    /\ InitSucceeded =>
          /\ script.defs[transformFnName] = Function(2)
          /\ script.defs[directoryDetectFnName] \in {AbsentValue, Function(1)}
    /\ (starResult.fn = "DirectoryDetect" /\ script.defs[directoryDetectFnName] = AbsentValue)
          => (~starResult.err /\ starResult.services = Nil)

C11_Witness ==
    /\ starPc = "ready" /\ starResult.fn = "DirectoryDetect"
    /\ script.defs[directoryDetectFnName] = AbsentValue
    /\ starCall.outcome = "ok"
    /\ ~starResult.err /\ starResult.services = Nil

\* C12: when the transform function of the script raises an error, or its
\* value cannot be unmarshalled or decoded into the output schema, Transform
\* returns an error, nil path mappings and nil created artifacts.
C12_FailedTransformReturnsNothing ==
    (starResult.fn = "Transform" /\ starCall.outcome \in {"raise", "unmarshal", "decode"})
        => /\ starResult.err
           /\ starResult.pathMappings = Nil
           /\ starResult.createdArtifacts = Nil

C12_Witness ==
    /\ starResult.fn = "Transform" /\ starCall.outcome = "decode"
    /\ starCall.output.createdArtifacts = <<"a1", "a2">>
    /\ starCall.output.pathMappings = <<"pm1">>
    /\ starResult.err /\ starResult.createdArtifacts = Nil

\* a key of the QA tree at or under the root
UnderRoot(id) == id = BaseKey \/ HasPrefix(id, BaseKey \o Delim)

\* C13 as stated: the id a problem is submitted with is its id when that is
\* under the root and <root>.<id> otherwise; it is a dot-delimited key under
\* the root, and normalising it again leaves it as it is.
C13_NormalisedIdsUnderRoot ==
    (starResult.fn = "query" /\ starResult.asked)
        => /\ starResult.id = IF UnderRoot(starCall.id) THEN starCall.id
                              ELSE BaseKey \o Delim \o starCall.id
           /\ UnderRoot(starResult.id)
           /\ NormaliseId(starResult.id) = starResult.id

\* C14 as stated: a query with a validation name fails, without the question
\* being submitted, when the script has no function of that name at the time of
\* the call, and finds the function when the script has defined one, at
\* whatever point of the script's life the call is made.
C14_ValidationLookup ==
    (/\ starResult.fn = "query" /\ starCall.argsOk /\ starCall.decodeOk
     /\ starCall.id # <<>> /\ starCall.validation # "")
        => /\ starCall.defined.kind # "function"
                => (starResult.err /\ ~starResult.asked)
           /\ starCall.defined.kind = "function"
                => (~starResult.err /\ starResult.validated)

\* what a name means to the code of the script once Init has returned: its own
\* definition if it has one, otherwise the predeclared value
ScriptEnv(name) ==
    IF Has(ScriptGlobals(script), name) THEN ScriptGlobals(script)[name]
    ELSE predeclared[name]

\* C16 as stated: after a successful Init each of the promised names is bound
\* for the script, and project is bound to the project name.
C16_GlobalsBound ==
    InitSucceeded =>
        /\ \A n \in VarNames : ScriptEnv(n).kind # "absent"
        /\ ScriptEnv(projectVarName) = StringValue(projectName)

\* ------------------------------------------------------------------------
\* postProcessArtifacts
\* ------------------------------------------------------------------------

\* the most artifacts one transformer creates in one call
MaxCreated == 2

ProducedTypes == {"X", "Y", "Z"}

\* an entry of Spec.ProducedArtifacts, and a type without one
NoProduce == [ok |-> FALSE, changeTypeTo |-> ""]
ChangeTypeTo(ty) == [ok |-> TRUE, changeTypeTo |-> ty]

ProducesOf(x, y) ==
    [ty \in ProducedTypes |-> IF ty = "X" THEN x ELSE IF ty = "Y" THEN y ELSE NoProduce]

\* the produces tables of the transformers
ProducesTables ==
    {ProducesOf(x, y) : x \in {NoProduce, ChangeTypeTo(""), ChangeTypeTo("Y"), ChangeTypeTo("X")},
                        y \in {NoProduce, ChangeTypeTo("Z"), ChangeTypeTo("X")}}

\* the artifacts a transformer creates; paths and configs are references
CreatedArtifacts ==
    {[name |-> n, type |-> ty, paths |-> r, configs |-> r] :
        n \in ArtifactNames, ty \in ProducedTypes, r \in {NilRef, 1}}

\* a rewrite that looks the new type up again
postProcessArtifactTwice(a, produces) ==
    LET b == IF produces[a.type].ok /\ produces[a.type].changeTypeTo # ""
             THEN [a EXCEPT !.type = produces[a.type].changeTypeTo]
             ELSE a
    IN  IF produces[b.type].ok /\ produces[b.type].changeTypeTo # ""
        THEN [b EXCEPT !.type = produces[b.type].changeTypeTo]
        ELSE b

\* postProcessArtifacts: the body of its loop for the artifact a
postProcessArtifact(a, produces) ==
    IF produces[a.type].ok /\ produces[a.type].changeTypeTo # ""
    THEN [a EXCEPT !.type = produces[a.type].changeTypeTo]
    ELSE a

PostProcessInit ==
    /\ \E n \in 0..MaxCreated :
          \E arts \in [1..n -> CreatedArtifacts], produces \in ProducesTables :
              utilIn = [artifacts |-> arts, produces |-> produces]
    /\ utilOut = <<>> /\ utilPc = "loop"
    /\ MergeIdle /\ FilterIdle /\ FsIdle /\ StarIdle

\* postProcessArtifacts: one turn of the loop
postProcessArtifactsLoop ==
    /\ utilPc = "loop" /\ Len(utilOut) < Len(utilIn.artifacts)
    /\ utilOut' = Append(utilOut,
                         postProcessArtifact(utilIn.artifacts[Len(utilOut) + 1],
                                             utilIn.produces))
    /\ UNCHANGED <<utilIn, utilPc>>
    /\ UNCHANGED notUtilVars

\* postProcessArtifacts returns newArtifacts
postProcessArtifactsReturn ==
    /\ utilPc = "loop" /\ Len(utilOut) = Len(utilIn.artifacts)
    /\ utilPc' = "done"
    /\ UNCHANGED <<utilIn, utilOut>>
    /\ UNCHANGED notUtilVars

PostProcessNext == postProcessArtifactsLoop \/ postProcessArtifactsReturn

SpecPostProcess == PostProcessInit /\ [][PostProcessNext]_vars

\* C15: the result has the length and order of the created artifacts; the
\* artifact at each position keeps its name, paths and configs; its type X is
\* Y exactly when produces[X].changeTypeTo = Y with Y non-empty, whatever
\* produces holds for Y, and is X otherwise.
C15_TypeRewrittenOnce ==
    utilPc = "done" =>
        /\ Len(utilOut) = Len(utilIn.artifacts)
        /\ \A i \in 1..Len(utilOut) :
              LET a == utilIn.artifacts[i]
                  p == utilIn.produces[a.type]
              IN  /\ utilOut[i].name = a.name
                  /\ utilOut[i].paths = a.paths
                  /\ utilOut[i].configs = a.configs
                  /\ utilOut[i].type = IF p.ok /\ p.changeTypeTo # ""
                                       THEN p.changeTypeTo ELSE a.type

C15_Witness ==
    /\ utilPc = "done" /\ Len(utilOut) = 2
    /\ utilIn.produces["X"] = ChangeTypeTo("Y")
    /\ utilIn.produces["Y"] = ChangeTypeTo("Z")
    /\ utilIn.artifacts[1].type = "X" /\ utilOut[1].type = "Y"
    /\ utilIn.artifacts[2].type = "Z" /\ utilOut[2].type = "Z"
    /\ utilOut[1].paths = 1

\* ------------------------------------------------------------------------
\* Properties of the loading of descriptors
\* ------------------------------------------------------------------------

\* C17 as stated: a descriptor file with a field unknown to the schema is
\* rejected by getTransformerConfig and its transformer is not in the result.
C17_UnknownFieldsRejected ==
    \A i \in Visited :
        transformerPaths[i].unknownFields
            => /\ getTransformerConfig(transformerPaths[i], i).err
               /\ filterPc = "done" => ~InResult(i)

\* the i-th file is malformed or of another kind
Rejected(i) ==
    ~transformerPaths[i].readable \/ transformerPaths[i].kind # TransformerKind

\* C18: a descriptor file that is malformed or whose kind is not Transformer is
\* an error of getTransformerConfig, is absent from the result and reports no
\* conflict; every other file of the call is still processed: one that passes
\* the selector and the class check, is the last of its name and is matched by
\* no override selector is in the result.
C18_RejectedDescriptorsDropped ==
    /\ \A i \in Visited :
          Rejected(i) => getTransformerConfig(transformerPaths[i], i).err
    /\ filterPc = "done" =>
          /\ \A i \in Visited :
                Rejected(i) => /\ ~InResult(i)
                               /\ \A c \in conflicts : c.ignored # i /\ c.other # i
          /\ \A j \in Visited :
                (/\ Survives(j) /\ LastOfName(j)
                 /\ \A m \in Visited : Passes(m) => ~Overrides(m, Loaded(j)))
                    => InResult(j)

C18_Witness ==
    /\ filterPc = "done" /\ Len(transformerPaths) = 3
    /\ Rejected(1) /\ transformerPaths[1].kind = "Cluster"
    /\ Rejected(2) /\ ~transformerPaths[2].readable
    /\ ~Rejected(3) /\ InResult(3)

\* ------------------------------------------------------------------------
\* getIgnorePaths
\* ------------------------------------------------------------------------

\* the most .m2kignore files under one input path
MaxIgnoreFiles == 2

\* common.IgnoreFilename
IgnoreFilename == ".m2kignore"

\* A line of an ignore file is a string of these tokens: the names "a", "b"
\* and "..", and the characters "/", "*" and " ". In the lines below every
\* path element is one token.

\* strings.TrimSpace
RECURSIVE TrimSpace(_)
TrimSpace(str) ==
    IF str = <<>> THEN str
    ELSE IF Head(str) = " " THEN TrimSpace(Tail(str))
    ELSE IF str[Len(str)] = " " THEN TrimSpace(SubSeq(str, 1, Len(str) - 1))
    ELSE str

\* strings.HasSuffix
HasSuffix(str, suffix) ==
    Len(suffix) <= Len(str)
        /\ SubSeq(str, Len(str) - Len(suffix) + 1, Len(str)) = suffix

\* a trim that removes every trailing occurrence of the suffix
RECURSIVE TrimSuffixAll(_, _)
TrimSuffixAll(str, suffix) ==
    IF suffix # <<>> /\ HasSuffix(str, suffix)
    THEN TrimSuffixAll(SubSeq(str, 1, Len(str) - Len(suffix)), suffix)
    ELSE str

\* strings.TrimSuffix
TrimSuffix(str, suffix) ==
    IF HasSuffix(str, suffix) THEN SubSeq(str, 1, Len(str) - Len(suffix)) ELSE str

\* the path a string denotes: its elements between the separators
PathOfString(str) ==
    [abs |-> str # <<>> /\ Head(str) = "/",
     segs |-> SelectSeq(str, LAMBDA tok : tok # "/")]

\* filepath.Dir
Dir(p) == Clean([abs |-> p.abs, segs |-> SubSeq(p.segs, 1, Len(p.segs) - 1)])

\* the path of the ignore file in the directory d
IgnoreFileIn(d) == [abs |-> d.abs, segs |-> Append(d.segs, IgnoreFilename)]

IgnoreFile(d, ok, lines) == [filePath |-> IgnoreFileIn(d), openOk |-> ok, lines |-> lines]

\* the ignore files GetFilesByName finds, with whether os.Open succeeds
IgnoreFiles ==
    {IgnoreFile(AbsPath(<<"src">>), TRUE, << <<"a">>, <<"a", "*">> >>),
     IgnoreFile(AbsPath(<<"src", "sub">>), TRUE,
                << <<" ", "a", " ">>, <<"a", "/", "*">>, <<>> >>),
     IgnoreFile(AbsPath(<<"src">>), TRUE, << <<"*">>, <<"*", "*">>, <<"a", "*", " ">> >>),
     IgnoreFile(AbsPath(<<"src", "sub">>), TRUE,
                << <<"..", "/", "b">>, <<"/", "a">>, <<"*", "/", "a">> >>),
     IgnoreFile(AbsPath(<<"src">>), FALSE, << <<"a">>, <<"a", "*">> >>),
     IgnoreFile(AbsPath(<<"src">>), TRUE, <<>>),
     IgnoreFile(AbsPath(<<"src", "sub">>), TRUE, << <<" ">>, <<"a", "/", "b">> >>),
     IgnoreFile(AbsPath(<<"src", "sub">>), FALSE, <<>>)}

\* getIgnorePaths: the body of the scanner loop for one line of the file at
\* filePath, given the two lists built so far
getIgnorePathsLine(lists, filePath, text) ==
    LET line == TrimSpace(text)
    IN  IF Len(line) = 0 THEN lists
        ELSE IF HasSuffix(line, <<"*">>)
        THEN [lists EXCEPT !.ignoreContents =
                 Append(@, Join(Dir(filePath), PathOfString(TrimSuffix(line, <<"*">>))))]
        ELSE [lists EXCEPT !.ignoreDirectories =
                 Append(@, Join(Dir(filePath), PathOfString(line)))]

IgnoreInit ==
    /\ \E n \in 0..MaxIgnoreFiles :
          \E files \in [1..n -> IgnoreFiles], walkOk \in BOOLEAN :
              utilIn = [filePaths |-> files, walkOk |-> walkOk]
    /\ utilOut = [ignoreDirectories |-> <<>>, ignoreContents |-> <<>>,
                  fileIdx |-> 0, lineIdx |-> 0]
    /\ utilPc = "call"
    /\ MergeIdle /\ FilterIdle /\ FsIdle /\ StarIdle

\* getIgnorePaths: GetFilesByName
getIgnorePathsFiles ==
    /\ utilPc = "call"
    /\ IF utilIn.walkOk
       THEN utilPc' = "loop" /\ utilOut' = [utilOut EXCEPT !.fileIdx = 1]
       ELSE utilPc' = "done" /\ UNCHANGED utilOut
    /\ UNCHANGED utilIn
    /\ UNCHANGED notUtilVars

\* getIgnorePaths: os.Open of the next file
getIgnorePathsOpen ==
    /\ utilPc = "loop" /\ utilOut.fileIdx <= Len(utilIn.filePaths) /\ utilOut.lineIdx = 0
    /\ IF utilIn.filePaths[utilOut.fileIdx].openOk
       THEN utilOut' = [utilOut EXCEPT !.lineIdx = 1]
       ELSE utilOut' = [utilOut EXCEPT !.fileIdx = @ + 1]
    /\ UNCHANGED <<utilIn, utilPc>>
    /\ UNCHANGED notUtilVars

\* getIgnorePaths: one line of the open file, or its end
getIgnorePathsScan ==
    /\ utilPc = "loop" /\ utilOut.fileIdx <= Len(utilIn.filePaths) /\ utilOut.lineIdx > 0
    /\ LET file == utilIn.filePaths[utilOut.fileIdx]
       IN  IF utilOut.lineIdx <= Len(file.lines)
           THEN utilOut' = [getIgnorePathsLine(utilOut, file.filePath,
                                               file.lines[utilOut.lineIdx])
                               EXCEPT !.lineIdx = @ + 1]
           ELSE utilOut' = [utilOut EXCEPT !.fileIdx = @ + 1, !.lineIdx = 0]
    /\ UNCHANGED <<utilIn, utilPc>>
    /\ UNCHANGED notUtilVars

\* getIgnorePaths returns the two lists
getIgnorePathsReturn ==
    /\ utilPc = "loop" /\ utilOut.fileIdx > Len(utilIn.filePaths)
    /\ utilPc' = "done"
    /\ UNCHANGED <<utilIn, utilOut>>
    /\ UNCHANGED notUtilVars

IgnoreNext ==
    \/ getIgnorePathsFiles
    \/ getIgnorePathsOpen
    \/ getIgnorePathsScan
    \/ getIgnorePathsReturn

SpecIgnore == IgnoreInit /\ [][IgnoreNext]_vars

\* the non-blank lines of an ignore file, without the space around them
NonBlankLines(file) ==
    SelectSeq([n \in 1..Len(file.lines) |-> TrimSpace(file.lines[n])],
              LAMBDA l : l # <<>>)

EndsInStar(l) == l[Len(l)] = "*"

\* the entry of a non-blank line l: the line, less its final "*" if it has
\* one, joined to the directory of the file
EntryOf(file, l) ==
    Join(Dir(file.filePath),
         PathOfString(IF EndsInStar(l) THEN SubSeq(l, 1, Len(l) - 1) ELSE l))

\* one entry per non-blank line of the files, in their order: for the lines
\* that end in "*" when contents is TRUE, for the other lines when it is FALSE
RECURSIVE EntriesOf(_, _)
EntriesOf(files, contents) ==
    IF files = <<>> THEN <<>>
    ELSE LET ls == SelectSeq(NonBlankLines(Head(files)),
                             LAMBDA l : EndsInStar(l) = contents)
         IN  [n \in 1..Len(ls) |-> EntryOf(Head(files), ls[n])]
                 \o EntriesOf(Tail(files), contents)

\* the ignore files getIgnorePaths could open
OpenedFiles ==
    IF utilIn.walkOk THEN SelectSeq(utilIn.filePaths, LAMBDA f : f.openOk) ELSE <<>>

\* C19: every non-blank line of every ignore file that getIgnorePaths reads
\* yields exactly one entry: a contents entry, less the "*", if the line ends
\* in "*", a directory entry otherwise, each joined to the directory of its
\* file; a file that cannot be opened is skipped and has no lines to classify.
C19_EveryLineClassified ==
    utilPc = "done" =>
        /\ utilOut.ignoreContents = EntriesOf(OpenedFiles, TRUE)
        /\ utilOut.ignoreDirectories = EntriesOf(OpenedFiles, FALSE)

C19_Witness ==
    /\ utilPc = "done" /\ utilIn.walkOk /\ Len(utilIn.filePaths) = 2
    /\ ~utilIn.filePaths[1].openOk /\ utilIn.filePaths[1].lines # <<>>
    /\ utilIn.filePaths[2].lines = << <<"*">>, <<"*", "*">>, <<"a", "*", " ">> >>
    /\ utilOut.ignoreContents =
          <<AbsPath(<<"src">>), AbsPath(<<"src", "*">>), AbsPath(<<"src", "a">>)>>
    /\ utilOut.ignoreDirectories = <<>>

\* ------------------------------------------------------------------------
\* getPlanArtifactsFromArtifacts
\* ------------------------------------------------------------------------

\* the service names of a detection result: "" is the service yet to be named
ServiceNames == {"", "svc1"}

\* a key of the services map with its artifacts, and a name that is no key
NoService == [present |-> FALSE, list |-> <<>>]
ServiceOf(l) == [present |-> TRUE, list |-> l]

DetectedArtifacts ==
    {[name |-> "n1", type |-> "X", paths |-> 1, configs |-> NilRef],
     [name |-> "n2", type |-> "X", paths |-> 2, configs |-> NilRef],
     [name |-> "n1", type |-> "Y", paths |-> NilRef, configs |-> 1]}

\* the lists of artifacts a transformer returns under one service name
ArtifactLists == UNION {[1..n -> DetectedArtifacts] : n \in 0..MaxCreated}

PlanArtifact(tn, a) == [transformerName |-> tn, artifact |-> a]

\* a loop body that leaves the artifacts of the unnamed service out
appendPlanArtifactsOfNamed(planServices, sn, svc, tn) ==
    IF svc = <<>> \/ sn = "" THEN planServices
    ELSE [planServices EXCEPT ![sn] =
             ServiceOf(@.list \o [n \in 1..Len(svc) |-> PlanArtifact(tn, svc[n])])]

\* getPlanArtifactsFromArtifacts: the body of the outer loop for the key sn
\* with the artifacts svc; tn is the name of the transformer
appendPlanArtifacts(planServices, sn, svc, tn) ==
    IF svc = <<>> THEN planServices
    ELSE [planServices EXCEPT ![sn] =
             ServiceOf(@.list \o [n \in 1..Len(svc) |-> PlanArtifact(tn, svc[n])])]

PlanArtifactsInit ==
    /\ \E services \in [ServiceNames -> {NoService} \cup {ServiceOf(l) : l \in ArtifactLists}],
          tn \in TransformerNames :
          utilIn = [services |-> services, transformerName |-> tn]
    /\ utilOut = [planServices |-> [sn \in ServiceNames |-> NoService], visited |-> {}]
    /\ utilPc = "loop"
    /\ MergeIdle /\ FilterIdle /\ FsIdle /\ StarIdle

\* getPlanArtifactsFromArtifacts: the range loop visits a key of services,
\* in the order the map gives
getPlanArtifactsLoop ==
    /\ utilPc = "loop"
    /\ \E sn \in ServiceNames \ utilOut.visited :
          /\ utilIn.services[sn].present
          /\ utilOut' = [planServices |->
                            appendPlanArtifacts(utilOut.planServices, sn,
                                                utilIn.services[sn].list,
                                                utilIn.transformerName),
                         visited |-> utilOut.visited \cup {sn}]
    /\ UNCHANGED <<utilIn, utilPc>>
    /\ UNCHANGED notUtilVars

\* getPlanArtifactsFromArtifacts returns planServices
getPlanArtifactsReturn ==
    /\ utilPc = "loop"
    /\ \A sn \in ServiceNames \ utilOut.visited : ~utilIn.services[sn].present
    /\ utilPc' = "done"
    /\ UNCHANGED <<utilIn, utilOut>>
    /\ UNCHANGED notUtilVars

PlanArtifactsNext == getPlanArtifactsLoop \/ getPlanArtifactsReturn

SpecPlanArtifacts == PlanArtifactsInit /\ [][PlanArtifactsNext]_vars

\* C20: under every service name, the empty one included, the result holds one
\* PlanArtifact per artifact the transformer returned under that name, in the
\* same order, each with the name of the transformer and the artifact itself.
C20_OnePlanArtifactPerArtifact ==
    utilPc = "done" =>
        \A sn \in ServiceNames :
            LET svc == utilIn.services[sn].list
                plan == utilOut.planServices[sn]
            IN  /\ Len(plan.list) = Len(svc)
                /\ \A n \in 1..Len(svc) :
                      /\ plan.list[n].transformerName = utilIn.transformerName
                      /\ plan.list[n].artifact = svc[n]
                /\ svc # <<>> => plan.present

C20_Witness ==
    /\ utilPc = "done"
    /\ Len(utilIn.services[""].list) = 2 /\ Len(utilIn.services["svc1"].list) = 1
    /\ utilIn.services[""].list[1] # utilIn.services[""].list[2]
    /\ utilOut.planServices[""].present
    /\ utilOut.planServices[""].list[2].artifact = utilIn.services[""].list[2]
    /\ utilOut.planServices["svc1"].list[1].transformerName = "B"

\* ------------------------------------------------------------------------
\* CreatePlan
\* ------------------------------------------------------------------------

\* the input paths of a plan: "" is no source directory
InputPaths == {"", "src"}

\* the error CreatePlan returns: nil, or the step that failed
NilError == "nil"

\* the lists of initialised transformers GetInitializedTransformers returns
InitializedTransformers ==
    {<<>>, <<"A">>, <<"A", "B">>}

\* the context of a call: not done, or done since the step `at`
Background == [done |-> FALSE, at |-> ""]
Cancelled(at) == [done |-> TRUE, at |-> at]

\* the plan NewPlan gives, with the fields CreatePlan sets first
NewPlan(in) ==
    [sourceDir |-> in.inputPath, selectorSet |-> FALSE, transformers |-> {},
     servicesSet |-> FALSE]

\* the call returns the plan with err
ReturnPlan(err) ==
    /\ utilOut' = [utilOut EXCEPT !.err = err]
    /\ utilPc' = "done"

\* the call goes on to the step pc
StepTo(pc) ==
    /\ utilPc' = pc
    /\ UNCHANGED utilOut

CreatePlanInit ==
    /\ \E inputPath \in InputPaths, selectorOk \in BOOLEAN, convertOk \in BOOLEAN,
          initOk \in BOOLEAN, servicesOk \in BOOLEAN,
          ts \in InitializedTransformers, ctxDone \in BOOLEAN :
          /\ utilIn = [inputPath |-> inputPath, selectorOk |-> selectorOk,
                       convertOk |-> convertOk, initOk |-> initOk,
                       servicesOk |-> servicesOk, ts |-> ts]
          /\ utilOut = [p |-> NewPlan(utilIn), err |-> NilError, idx |-> 1,
                        ctx |-> IF ctxDone THEN Cancelled("start") ELSE Background]
    /\ utilPc = "parse"
    /\ MergeIdle /\ FilterIdle /\ FsIdle /\ StarIdle

\* the caller cancels the context while CreatePlan runs
CancelContext ==
    /\ utilPc \notin {"idle", "done"}
    /\ ~utilOut.ctx.done
    /\ utilOut' = [utilOut EXCEPT !.ctx = Cancelled(utilPc)]
    /\ UNCHANGED <<utilIn, utilPc>>
    /\ UNCHANGED notUtilVars

\* CreatePlan: metav1.ParseToLabelSelector
CreatePlanParseSelector ==
    /\ utilPc = "parse"
    /\ IF ~utilIn.selectorOk THEN ReturnPlan("parse")
       ELSE /\ utilOut' = [utilOut EXCEPT !.p.selectorSet = TRUE]
            /\ utilPc' = "convert"
    /\ UNCHANGED utilIn
    /\ UNCHANGED notUtilVars

\* CreatePlan: metav1.LabelSelectorAsSelector
CreatePlanConvertSelector ==
    /\ utilPc = "convert"
    /\ IF ~utilIn.convertOk THEN ReturnPlan("convert") ELSE StepTo("init")
    /\ UNCHANGED utilIn
    /\ UNCHANGED notUtilVars

\* CreatePlan: transformer.Init
CreatePlanInitTransformers ==
    /\ utilPc = "init"
    /\ IF ~utilIn.initOk THEN ReturnPlan("init") ELSE StepTo("configs")
    /\ UNCHANGED utilIn
    /\ UNCHANGED notUtilVars

\* CreatePlan: the loop over the initialised transformers records one of them
CreatePlanRecordTransformer ==
    /\ utilPc = "configs"
    /\ utilOut.idx <= Len(utilIn.ts)
    /\ utilOut' = [utilOut EXCEPT !.p.transformers = @ \cup {utilIn.ts[utilOut.idx]},
                                  !.idx = @ + 1]
    /\ UNCHANGED <<utilIn, utilPc>>
    /\ UNCHANGED notUtilVars

\* CreatePlan: the loop over the initialised transformers ends
CreatePlanConfigsDone ==
    /\ utilPc = "configs"
    /\ utilOut.idx > Len(utilIn.ts)
    /\ StepTo("services")
    /\ UNCHANGED utilIn
    /\ UNCHANGED notUtilVars

\* CreatePlan: transformer.GetServices, whose error is logged, and the return
CreatePlanGetServicesStep(in, st) ==
    IF in.inputPath # ""
    THEN [st EXCEPT !.p.servicesSet = in.servicesOk, !.err = NilError]
    ELSE [st EXCEPT !.err = NilError]

CreatePlanGetServices ==
    /\ utilPc = "services"
    /\ utilOut' = CreatePlanGetServicesStep(utilIn, utilOut)
    /\ utilPc' = "done"
    /\ UNCHANGED utilIn
    /\ UNCHANGED notUtilVars

CreatePlanNext ==
    \/ CancelContext
    \/ CreatePlanParseSelector
    \/ CreatePlanConvertSelector
    \/ CreatePlanInitTransformers
    \/ CreatePlanRecordTransformer
    \/ CreatePlanConfigsDone
    \/ CreatePlanGetServices

SpecCreatePlan == CreatePlanInit /\ [][CreatePlanNext]_vars

\* C21: a call of CreatePlan whose context was cancelled before the call
\* started returns a cancellation error, not a completed plan.
C21_CancelledReturnsError ==
    (utilPc = "done" /\ utilOut.ctx.done /\ utilOut.ctx.at = "start") =>
        utilOut.err = "cancelled"

\* a step of CreatePlan failed
PlanningFailed ==
    \/ ~utilIn.selectorOk
    \/ ~utilIn.convertOk
    \/ ~utilIn.initOk
    \/ utilIn.inputPath # "" /\ ~utilIn.servicesOk

\* C22: when the selector cannot be parsed or converted, the transformers
\* cannot be initialised or GetServices fails, CreatePlan returns an error.
C22_FailureReported ==
    (utilPc = "done" /\ PlanningFailed) => utilOut.err # NilError

\* ------------------------------------------------------------------------
\* Frame and content properties of updatedArtifacts and mergeConfigs
\* ------------------------------------------------------------------------

\* the contents of an artifact when updatedArtifacts was entered, and now
ViewAtEntry(art) == ArtifactView(pathMaps0, configMaps0, art)
ViewNow(art) == ArtifactView(pathMaps, configMaps, art)

\* C23: during and after updatedArtifacts(seen, new...) every artifact of seen
\* has the name, type, paths map contents and configs map contents it had when
\* the call was entered.
C23_SeenUnchanged ==
    \A k \in 1..Len(alreadySeenArtifacts) :
        ViewNow(alreadySeenArtifacts[k]) = ViewAtEntry(alreadySeenArtifacts[k])

\* the config keys a configs map holds
KeysOf(m) == {k \in ConfigKinds : m[k].kind # "absent"}

\* C24: whenever the mergeConfigs call of mergeArtifact(a, b) reports
\* merged = true, every config key of a or of b is a key of the merged configs.
C24_NoKeyDiscarded ==
    (resAB.called /\ resAB.merged) =>
        (KeysOf(ViewA.configsMap) \cup KeysOf(ViewB.configsMap))
            \subseteq KeysOf(resAB.view.configsMap)

\* C28: whenever mergeArtifact(a, b) returns merged = false, the paths and the
\* configs of a and of b are what they were before the call.
C28_RefusedMergeNoEffect ==
    (resAB.called /\ ~resAB.merged) =>
        (resAB.viewA = ViewA /\ resAB.viewB = ViewB)

\* C26: the list updatedArtifacts(seen, new...) returns holds no artifact equal,
\* in name, type, paths and configs, to an artifact of seen.
C26_NoSeenArtifactReturned ==
    mergePc = "done" =>
        \A j \in 1..Len(out), k \in 1..Len(alreadySeenArtifacts) :
            ViewNow(out[j]) # ViewNow(alreadySeenArtifacts[k])

\* the loop of updatedArtifacts over the new artifacts has ended and
\* mergeArtifacts is about to start
SeenLoopDone == mergePc = "mergeLoop" /\ idxI = 1 /\ idxJ = 1 /\ out = <<>>

\* mergeArtifact(new[i], seen[j]) on the artifacts as they were at entry
MergeAtEntry(i, j, ord) ==
    mergeArtifact(pathMaps0, configMaps0, newArtifacts0[i], alreadySeenArtifacts[j], ord)

\* the first element of seen with which the merge of new[i] succeeds, 0 if none
FirstMatch(i) ==
    LET js == {j \in 1..Len(alreadySeenArtifacts) :
                  \E ord \in Orders : MergeAtEntry(i, j, ord).merged}
    IN  IF js = {} THEN 0 ELSE CHOOSE j \in js : \A j2 \in js : j <= j2

\* new[i] is its merge with seen[j], the config keys visited in some order
IsMergeWith(i, j) ==
    \E ord \in Orders :
        LET r == MergeAtEntry(i, j, ord)
        IN  ViewNow(newArtifacts[i]) = ArtifactView(r.pathMaps, r.configMaps, r.c)

\* the entries of the result follow the order of the artifacts of new
OrderFollowsInput ==
    /\ \A i \in 1..Len(newArtifacts) :
          \E j \in 1..Len(out) : Identity(out[j]) = Identity(newArtifacts[i])
    /\ \E f \in [1..Len(out) -> 1..Len(newArtifacts)] :
          /\ \A j1, j2 \in 1..Len(out) : j1 < j2 => f[j1] < f[j2]
          /\ \A j \in 1..Len(out) :
                /\ Identity(out[j]) = Identity(newArtifacts[f[j]])
                /\ refused = {} =>
                      \A i \in 1..(f[j] - 1) :
                          Identity(newArtifacts[i]) # Identity(out[j])

\* C25: when the loop over new ends, each new[i] is its merge with the first
\* element of seen with which the merge succeeds, and is as it was at entry
\* when none merges; the list returned follows the order in which the
\* artifacts first occur in new.
C25_FirstSeenMatchMerged ==
    /\ SeenLoopDone =>
          \A i \in 1..Len(newArtifacts) :
              IF FirstMatch(i) = 0
              THEN ViewNow(newArtifacts[i]) = ViewAtEntry(newArtifacts0[i])
              ELSE IsMergeWith(i, FirstMatch(i))
    /\ mergePc = "done" => OrderFollowsInput

\* ------------------------------------------------------------------------
\* The validator getStarlarkQuery builds from a script function
\* ------------------------------------------------------------------------

\* a Go value behind an interface{}: its dynamic type and, for a string, its text
GoValue(type, str) == [type |-> type, str |-> str]

\* the answers the engine hands to a validator; starutil.Marshal has no
\* Starlark value for the last one
Answers ==
    {GoValue("string", ""), GoValue("string", "yes"), GoValue("string", "no"),
     GoValue("[]string", ""), GoValue("chan", "")}

\* what the call of the script function comes to: it raises, or it returns a
\* value that starutil.Unmarshal turns into a Go value or cannot convert
Raises == [raises |-> TRUE, convertible |-> FALSE, value |-> GoValue("nil", "")]
ReturnsValue(v) == [raises |-> FALSE, convertible |-> TRUE, value |-> v]
ReturnsUnconvertible == [raises |-> FALSE, convertible |-> FALSE, value |-> GoValue("nil", "")]

FunctionOutcomes ==
    {Raises, ReturnsUnconvertible,
     ReturnsValue(GoValue("string", "")), ReturnsValue(GoValue("string", "bad")),
     ReturnsValue(GoValue("nil", "")), ReturnsValue(GoValue("int", "")),
     ReturnsValue(GoValue("bool", "")), ReturnsValue(GoValue("[]interface{}", ""))}

\* what a call of the validator comes to: it has not ended, it returned nil, it
\* returned an error, or it panicked
Running == [ended |-> FALSE, panicked |-> FALSE, err |-> ""]
ReturnsNil == [ended |-> TRUE, panicked |-> FALSE, err |-> ""]
ReturnsError(msg) == [ended |-> TRUE, panicked |-> FALSE, err |-> msg]
Panics == [ended |-> TRUE, panicked |-> TRUE, err |-> ""]

\* prob.Validator: value.(string) on the unmarshalled result, and the return
ValidatorCheck(value) ==
    IF value.type # "string" THEN Panics
    ELSE IF value.str # "" THEN ReturnsError("validation failed")
    ELSE ReturnsNil

ValidatorInit ==
    /\ \E ans \in Answers, outcome \in FunctionOutcomes :
          utilIn = [ans |-> ans, outcome |-> outcome]
    /\ utilOut = Running
    /\ utilPc = "marshal"
    /\ MergeIdle /\ FilterIdle /\ FsIdle /\ StarIdle

\* prob.Validator: starutil.Marshal(ans)
ValidatorMarshal ==
    /\ utilPc = "marshal"
    /\ IF utilIn.ans.type = "chan"
       THEN utilOut' = ReturnsError("unable to convert") /\ utilPc' = "done"
       ELSE utilOut' = utilOut /\ utilPc' = "call"
    /\ UNCHANGED utilIn
    /\ UNCHANGED notUtilVars

\* prob.Validator: starlark.Call of the script function
ValidatorCall ==
    /\ utilPc = "call"
    /\ IF utilIn.outcome.raises
       THEN utilOut' = ReturnsError("unable to execute") /\ utilPc' = "done"
       ELSE utilOut' = utilOut /\ utilPc' = "unmarshal"
    /\ UNCHANGED utilIn
    /\ UNCHANGED notUtilVars

\* prob.Validator: starutil.Unmarshal of what the function returned
ValidatorUnmarshal ==
    /\ utilPc = "unmarshal"
    /\ IF ~utilIn.outcome.convertible
       THEN utilOut' = ReturnsError("unable to unmarshal") /\ utilPc' = "done"
       ELSE utilOut' = utilOut /\ utilPc' = "check"
    /\ UNCHANGED utilIn
    /\ UNCHANGED notUtilVars

\* prob.Validator: the test of the unmarshalled value
ValidatorReturn ==
    /\ utilPc = "check"
    /\ utilOut' = ValidatorCheck(utilIn.outcome.value)
    /\ utilPc' = "done"
    /\ UNCHANGED utilIn
    /\ UNCHANGED notUtilVars

ValidatorNext ==
    ValidatorMarshal \/ ValidatorCall \/ ValidatorUnmarshal \/ ValidatorReturn

SpecValidator == ValidatorInit /\ [][ValidatorNext]_vars

\* the script function was called and returned the string str
ReturnedString(str) ==
    /\ utilIn.ans.type # "chan"
    /\ utilIn.outcome = ReturnsValue(GoValue("string", str))

\* C27: a call of the validator never panics; it returns nil exactly when the
\* script function returns the empty string, a validation failure when the
\* function returns a non-empty string, and another error in every other case.
C27_ValidatorNeverCrashes ==
    utilPc = "done" =>
        IF ReturnedString("") THEN utilOut = ReturnsNil
        ELSE IF ReturnedString("bad") THEN utilOut = ReturnsError("validation failed")
        ELSE ~utilOut.panicked /\ utilOut.err \notin {"", "validation failed"}

\* ------------------------------------------------------------------------
\* ReadFilesAsTar, writeToTar and createTarArchive
\* ------------------------------------------------------------------------

\* largest number of regular files under srcPath
MaxFiles == 2

\* largest number of Close calls a holder of the reader makes
MaxCloses == 2

CompressionTypes == {"none", "gzip"}

\* who holds the reader: createTarArchive, or another caller of ReadFilesAsTar
\* that reads and closes as it likes
Consumers == {"createTarArchive", "caller"}

\* the calls writeToTar has deferred, in the order they run
DeferredCalls(compressionType) ==
    IF compressionType = "gzip" THEN <<"tw.Close", "gzipWriter.Close", "w.Close">>
    ELSE <<"tw.Close", "w.Close">>

NoReturn == [returned |-> FALSE, err |-> NilError, str |-> <<>>]

\* ReadFilesAsTar returns: the pipe is open, the goroutine of writeToTar is
\* about to start, nothing is read yet
TarInit ==
    /\ \E statOk \in BOOLEAN, files \in 0..MaxFiles, compressionType \in CompressionTypes,
          consumer \in Consumers :
       \E failAt \in 0..files :
          utilIn = [statOk |-> statOk, files |-> files, failAt |-> failAt,
                    compressionType |-> compressionType, consumer |-> consumer]
    /\ utilOut = [wPc |-> "stat", idx |-> 1, deferred |-> <<>>, pending |-> "",
                  err |-> NilError, rclosed |-> FALSE, wclosed |-> FALSE,
                  closed |-> FALSE, buf |-> <<>>, eof |-> FALSE, closes |-> <<>>,
                  ret |-> NoReturn]
    /\ utilPc = "open"
    /\ MergeIdle /\ FilterIdle /\ FsIdle /\ StarIdle

\* writeToTar returns err from its body: the deferred calls run next
WriterReturns(st, err) ==
    [st EXCEPT !.err = err, !.wPc = "deferred",
               !.deferred = DeferredCalls(utilIn.compressionType)]

\* a Write on the PipeWriter: it fails at once when the read side is closed,
\* and otherwise waits for a Read to take the data
PipeWrite(st, data) ==
    IF st.rclosed THEN [st EXCEPT !.pending = "failed"]
    ELSE [st EXCEPT !.pending = data]

\* writeToTar: os.Stat(srcPath)
WriterStat ==
    /\ utilOut.wPc = "stat"
    /\ utilOut' = IF utilIn.statOk THEN [utilOut EXCEPT !.wPc = "walk"]
                  ELSE WriterReturns(utilOut, "stat")
    /\ UNCHANGED <<utilIn, utilPc>>
    /\ UNCHANGED notUtilVars

\* writeToTar: filepath.Walk comes to the next file, or to its end; the tar
\* entry of a file goes to the pipe, or stays in the buffer of the gzip writer
WriterWalk ==
    /\ utilOut.wPc = "walk" /\ utilOut.pending = ""
    /\ IF utilOut.idx > utilIn.files THEN utilOut' = WriterReturns(utilOut, NilError)
       ELSE IF utilOut.idx = utilIn.failAt THEN utilOut' = WriterReturns(utilOut, "open")
       ELSE \/ utilOut' = PipeWrite(utilOut, "file")
            \/ /\ utilIn.compressionType = "gzip"
               /\ utilOut' = [utilOut EXCEPT !.idx = @ + 1]
    /\ UNCHANGED <<utilIn, utilPc>>
    /\ UNCHANGED notUtilVars

\* a Write on the PipeWriter returns io.ErrClosedPipe: the walk ends with that
\* error, a deferred Close drops it
PipeWriteFails ==
    /\ utilOut.pending # "" /\ utilOut.rclosed
    /\ utilOut' = IF utilOut.wPc = "walk"
                  THEN [WriterReturns(utilOut, "closed pipe") EXCEPT !.pending = ""]
                  ELSE [utilOut EXCEPT !.pending = "", !.deferred = Tail(@)]
    /\ UNCHANGED <<utilIn, utilPc>>
    /\ UNCHANGED notUtilVars

\* writeToTar: the next deferred call; tw.Close writes the end of the archive
\* unless an entry is unfinished or a write has failed, gzipWriter.Close
\* writes what the gzip writer holds, w.Close closes the write side
WriterDeferred ==
    /\ utilOut.wPc = "deferred" /\ utilOut.pending = ""
    /\ utilOut' =
          CASE Head(utilOut.deferred) = "tw.Close" ->
                  IF utilOut.err \in {"open", "closed pipe"}
                     \/ utilIn.compressionType = "gzip"
                  THEN [utilOut EXCEPT !.deferred = Tail(@)]
                  ELSE PipeWrite(utilOut, "end")
            [] Head(utilOut.deferred) = "gzipWriter.Close" ->
                  PipeWrite(utilOut, "gzip")
            [] OTHER ->
                  [utilOut EXCEPT !.deferred = Tail(@), !.wclosed = TRUE, !.wPc = "send"]
    /\ UNCHANGED <<utilIn, utilPc>>
    /\ UNCHANGED notUtilVars

\* the writer after a Read has taken the data of its Write
WriteTaken(st) ==
    IF st.wPc = "walk" THEN [st EXCEPT !.pending = "", !.idx = @ + 1]
    ELSE [st EXCEPT !.pending = "", !.deferred = Tail(@)]

\* a Read on the reader: it takes the data of the waiting Write, or returns
\* io.EOF once the write side is closed
Read ==
    /\ utilPc = "open" /\ ~utilOut.rclosed /\ ~utilOut.eof
    /\ \/ /\ utilOut.pending \notin {"", "failed"}
          /\ utilOut' = [WriteTaken(utilOut) EXCEPT !.buf = Append(@, utilOut.pending)]
       \/ /\ utilOut.pending = "" /\ utilOut.wclosed
          /\ utilOut' = [utilOut EXCEPT !.eof = TRUE]
    /\ UNCHANGED <<utilIn, utilPc>>
    /\ UNCHANGED notUtilVars

\* Close is called: by createTarArchive when io.Copy has returned, by another
\* caller at any time; a closed reader returns an error at once
CloseEnter ==
    /\ utilPc = "open" /\ Len(utilOut.closes) < MaxCloses
    /\ utilIn.consumer = "createTarArchive" => (utilOut.eof /\ utilOut.closes = <<>>)
    /\ IF utilOut.closed
       THEN /\ utilOut' = [utilOut EXCEPT !.closes = Append(@, "reader already closed")]
            /\ utilPc' = "open"
       ELSE /\ utilOut' = utilOut
            /\ utilPc' = "prClose"
    /\ UNCHANGED utilIn
    /\ UNCHANGED notUtilVars

\* a Close that leaves the pipe as it is
prCloseNothing(st) == st

\* pr.Close(): the read side of the pipe is closed
prClose(st) == [st EXCEPT !.rclosed = TRUE]

\* Close: perr := pr.Close()
ClosePipe ==
    /\ utilPc = "prClose"
    /\ utilOut' = prClose(utilOut)
    /\ utilPc' = "recv"
    /\ UNCHANGED utilIn
    /\ UNCHANGED notUtilVars

\* Close receives from errChan what the goroutine sends, its last statement,
\* sets closed and returns the error of writeToTar
CloseReceive ==
    /\ utilPc = "recv" /\ utilOut.wPc = "send"
    /\ utilOut' = [utilOut EXCEPT !.wPc = "done", !.closed = TRUE,
                                  !.closes = Append(@, utilOut.err)]
    /\ utilPc' = "open"
    /\ UNCHANGED utilIn
    /\ UNCHANGED notUtilVars

\* archivedData.String() of the buffer createTarArchive returned
archivedDataString(err, buf) == IF err # NilError THEN <<"<nil>">> ELSE buf

\* createTarArchive returns buf and the error of io.Copy, which is nil once
\* Read has returned io.EOF; the wrapper returns the string of the buffer
createTarArchiveReturn ==
    /\ utilPc = "open" /\ utilIn.consumer = "createTarArchive"
    /\ utilOut.eof /\ Len(utilOut.closes) = 1
    /\ utilOut' = [utilOut EXCEPT !.ret =
                      [returned |-> TRUE, err |-> NilError,
                       str |-> archivedDataString(NilError, utilOut.buf)]]
    /\ utilPc' = "returned"
    /\ UNCHANGED utilIn
    /\ UNCHANGED notUtilVars

Writer == WriterStat \/ WriterWalk \/ PipeWriteFails \/ WriterDeferred

TarNext ==
    \/ WriterStat \/ WriterWalk \/ PipeWriteFails \/ WriterDeferred
    \/ Read \/ CloseEnter \/ ClosePipe \/ CloseReceive
    \/ createTarArchiveReturn

\* the goroutine of the writer is scheduled, and a Close that was called goes on
SpecTar ==
    /\ TarInit /\ [][TarNext]_vars
    /\ WF_vars(Writer) /\ WF_vars(ClosePipe) /\ WF_vars(CloseReceive)

\* a Close that found the reader open is waiting for pr.Close or for errChan
InFirstClose == utilPc \in {"prClose", "recv"}

\* what holds whenever Close calls have returned
CloseResults ==
    /\ utilOut.closes # <<>> => (utilOut.wPc = "done" /\ utilOut.closed)
    /\ \A n \in 2..Len(utilOut.closes) : utilOut.closes[n] = "reader already closed"
    /\ InFirstClose => utilOut.closes = <<>>

\* C29: the first Close of a reader returned by ReadFilesAsTar returns, for any
\* interleaving with the writer and however much was read before, and the
\* goroutine of the writer has ended by then; a later Close returns 'reader
\* already closed' without waiting.
C29_CloseReturns ==
    /\ []CloseResults
    /\ InFirstClose ~> (utilPc = "open" /\ Len(utilOut.closes) = 1)

C29_Witness ==
    /\ utilIn.consumer = "caller" /\ utilIn.statOk /\ utilIn.files = 2
    /\ utilOut.buf = <<"file">> /\ ~utilOut.eof
    /\ utilOut.closes = <<"closed pipe", "reader already closed">>
    /\ utilOut.wPc = "done"

\* the archive failed: writeToTar ended with an error
ArchiveFailed == utilOut.wPc \in {"deferred", "send", "done"} /\ utilOut.err # NilError

\* C30: when writeToTar ends with an error, createTarArchive returns a non-nil
\* error and the wrappers of the archive builtins return no archive string.
C30_ArchiveErrorPropagated ==
    (utilOut.ret.returned /\ ArchiveFailed) =>
        /\ utilOut.ret.err # NilError
        /\ utilOut.ret.str \in {<<>>, <<"<nil>">>}

====
